---- MODULE Spec2Model ----
(***************************************************************************)
(* Model of summarize_text_smart (backend/app/nlp/summarizer.py), the      *)
(* keyword-scored, length-budgeted extractive paragraph summarizer.        *)
(*                                                                         *)
(* A Python str is modelled as a sequence of code points; each code point  *)
(* is a one-character TLA+ string ("a", " ", "\n"), and the three non-ASCII*)
(* code points of the literals are the tokens "WARN", "VS16" and "PAGE".   *)
(* Every string operation of the function (strip, lower, re.split, split,  *)
(* rsplit, slicing, join, len, substring test, integer formatting) is an   *)
(* operator over such sequences, computed as Python computes it.           *)
(***************************************************************************)
EXTENDS Integers, Sequences, FiniteSets

(***************************************************************************)
(* Generic helpers                                                         *)
(***************************************************************************)
SetMin(S) == CHOOSE x \in S : \A y \in S : x <= y

SetMax(S) == CHOOSE x \in S : \A y \in S : x >= y

\* The elements of a finite set of integers in increasing order.
SortedSeq(S) ==
  [i \in 1..Cardinality(S) |-> CHOOSE x \in S : Cardinality({y \in S : y < x}) = i - 1]

(***************************************************************************)
(* Python string primitives                                                *)
(***************************************************************************)
\* Code points for which str.isspace() holds and which \s matches.
Whitespace == {" ", "\n", "\t"}

IsSpace(c) == c \in Whitespace

UpperChars == <<"A", "B", "C", "D", "E", "F", "G", "H", "I", "J", "K", "L", "M",
                "N", "O", "P", "Q", "R", "S", "T", "U", "V", "W", "X", "Y", "Z">>

LowerChars == <<"a", "b", "c", "d", "e", "f", "g", "h", "i", "j", "k", "l", "m",
                "n", "o", "p", "q", "r", "s", "t", "u", "v", "w", "x", "y", "z">>

UpperSet == {UpperChars[i] : i \in 1..Len(UpperChars)}

LowerChar(c) ==
  IF c \in UpperSet
    THEN LowerChars[CHOOSE i \in 1..Len(UpperChars) : UpperChars[i] = c]
    ELSE c

\* str.lower()
Lower(s) == SubSeq([i \in 1..Len(s) |-> LowerChar(s[i])], 1, Len(s))

\* str.strip()
Strip(s) ==
  LET n == Len(s)
      \* the numbers of whitespace code points at the head and at the tail of s
      lead == CHOOSE k \in 0..n : (k = n \/ ~IsSpace(s[k + 1])) /\ \A j \in 1..k : IsSpace(s[j])
      trail == CHOOSE k \in 0..n : (k = n \/ ~IsSpace(s[n - k])) /\ \A j \in 1..k : IsSpace(s[n + 1 - j])
  IN  IF lead = n THEN <<>> ELSE SubSeq(s, lead + 1, n - trail)

\* s[:n]
Prefix(s, n) == SubSeq(s, 1, IF n < Len(s) THEN n ELSE Len(s))

\* k occurs in s as a contiguous substring starting at index i.
OccursAt(s, k, i) ==
  i + Len(k) - 1 <= Len(s) /\ \A j \in 1..Len(k) : s[i + j - 1] = k[j]

AllSpace(s, a, b) == \A k \in a..b : IsSpace(s[k])

Newlines(s) == {i \in 1..Len(s) : s[i] = "\n"}

\* The non-overlapping leftmost matches <<first, last>> of the regular
\* expression \n\s*\n in s: a match starts at the first newline of a
\* whitespace run that holds another newline, and (\s* being greedy) ends at
\* the last newline of that run.
BlankLineMatches(s) ==
  LET nl == Newlines(s)
  IN  {m \in nl \X nl :
         /\ m[1] < m[2]
         /\ AllSpace(s, m[1], m[2])
         /\ ~\E g \in nl : g < m[1] /\ AllSpace(s, g, m[1])
         /\ ~\E g \in nl : g > m[2] /\ AllSpace(s, m[2], g)}

\* The pieces of s between the separators seps (a set of <<first, last>>
\* index pairs), in order: one more piece than there are separators.
PiecesBetween(s, seps) ==
  LET starts == SortedSeq({1} \cup {m[2] + 1 : m \in seps})
      EndOf(a) ==
        LET later == {m[1] : m \in {x \in seps : x[1] >= a}}
        IN  IF later = {} THEN Len(s) ELSE SetMin(later) - 1
  IN  [i \in 1..Len(starts) |-> SubSeq(s, starts[i], EndOf(starts[i]))]

\* re.split(r'\n\s*\n', s)
SplitBlankLines(s) == PiecesBetween(s, BlankLineMatches(s))

\* s.split('\n')
SplitLines(s) == PiecesBetween(s, {<<i, i>> : i \in Newlines(s)})

\* s.rsplit('.', 1)[0]: the part before the last period, or s when it has none.
RSplitDotHead(s) ==
  LET dots == {i \in 1..Len(s) : s[i] = "."}
  IN  IF dots = {} THEN s ELSE SubSeq(s, 1, SetMax(dots) - 1)

\* len(s.split()): the number of maximal runs of non-whitespace code points.
WordCount(s) ==
  Cardinality({i \in 1..Len(s) : ~IsSpace(s[i]) /\ (i = 1 \/ IsSpace(s[i - 1]))})

RECURSIVE Join(_, _)
\* sep.join(parts)
Join(sep, parts) ==
  IF Len(parts) = 0 THEN <<>>
  ELSE IF Len(parts) = 1 THEN parts[1]
  ELSE parts[1] \o sep \o Join(sep, Tail(parts))

Digits == <<"0", "1", "2", "3", "4", "5", "6", "7", "8", "9">>

RECURSIVE IntToStr(_)
\* str(n) for a non-negative integer, as the f-string formats it.
IntToStr(n) ==
  IF n < 10 THEN <<Digits[n + 1]>>
  ELSE IntToStr(n \div 10) \o <<Digits[(n % 10) + 1]>>

(***************************************************************************)
(* Literals of summarize_text_smart                                        *)
(***************************************************************************)
Sentinel ==
  <<"WARN", "VS16", " ", "N", "o", " ", "t", "e", "x", "t", " ", "a", "v", "a",
    "i", "l", "a", "b", "l", "e", " ", "t", "o", " ", "s", "u", "m", "m", "a",
    "r", "i", "z", "e", ".">>

important_keywords ==
  << <<"a", "g", "r", "e", "e", "m", "e", "n", "t">>,
     <<"p", "a", "r", "t", "y">>,
     <<"p", "a", "r", "t", "i", "e", "s">>,
     <<"h", "e", "r", "e", "b", "y">>,
     <<"s", "h", "a", "l", "l">>,
     <<"t", "e", "r", "m", "s">>,
     <<"c", "o", "n", "d", "i", "t", "i", "o", "n", "s">>,
     <<"o", "b", "l", "i", "g", "a", "t", "i", "o", "n", "s">>,
     <<"r", "i", "g", "h", "t", "s">>,
     <<"p", "u", "r", "s", "u", "a", "n", "t">>,
     <<"e", "f", "f", "e", "c", "t", "i", "v", "e">>,
     <<"t", "e", "r", "m", "i", "n", "a", "t", "i", "o", "n">>,
     <<"l", "i", "a", "b", "i", "l", "i", "t", "y">>,
     <<"i", "n", "d", "e", "m", "n", "i", "f", "i", "c", "a", "t", "i", "o", "n">>,
     <<"c", "o", "n", "f", "i", "d", "e", "n", "t", "i", "a", "l">>,
     <<"w", "h", "e", "r", "e", "a", "s">>,
     <<"t", "h", "e", "r", "e", "f", "o", "r", "e">>,
     <<"n", "o", "t", "w", "i", "t", "h", "s", "t", "a", "n", "d", "i", "n", "g">> >>

ParaSep == <<"\n", "\n">>

FooterHead ==
  <<"\n", "\n", "-", "-", "-", "\n", "PAGE", " ", "S", "u", "m", "m", "a", "r",
    "y", ":", " ">>

FooterMid ==
  <<" ", "k", "e", "y", " ", "s", "e", "c", "t", "i", "o", "n", "(", "s", ")",
    " ", "|", " ">>

FooterTail == <<" ", "w", "o", "r", "d", "s">>

MoreSuffix ==
  <<" ", "|", " ", "F", "u", "l", "l", " ", "d", "o", "c", "u", "m", "e", "n",
    "t", " ", "c", "o", "n", "t", "a", "i", "n", "s", " ", "a", "d", "d", "i",
    "t", "i", "o", "n", "a", "l", " ", "d", "e", "t", "a", "i", "l", "s">>

\* The budget with an unrecognised tier resolved to the smallest limit.
CharLimitUnknownShort(length) ==
  CASE length = "short" -> 1000
    [] length = "medium" -> 2500
    [] length = "long" -> 5000
    [] OTHER -> 1000

\* limits.get(length, 2500)
CharLimit(length) ==
  CASE length = "short" -> 1000
    [] length = "medium" -> 2500
    [] length = "long" -> 5000
    [] OTHER -> 2500

(***************************************************************************)
(* Steps of summarize_text_smart as pure operators                         *)
(***************************************************************************)
\* An emptiness test that forgets whitespace-only text.
IsEmptyOnly(t) == Len(t) = 0

\* not text or len(text.strip()) == 0
IsBlank(t) == Len(t) = 0 \/ Len(Strip(t)) = 0

\* [p.strip() for p in pieces if p.strip()]
StrippedNonEmpty(pieces) ==
  SelectSeq([i \in 1..Len(pieces) |-> Strip(pieces[i])], LAMBDA p : Len(p) > 0)

\* A filter that keeps a fragment of exactly 20 code points.
KeepFragmentFrom20(p) == Len(p) > 0 /\ Len(p) >= 20

\* The filter of the single-newline split: p.strip() and len(p.strip()) > 20
KeepFragment(p) == Len(p) > 0 /\ Len(p) > 20

\* The paragraph list of the (already stripped) text t.
SplitParagraphs(t) ==
  LET byBlank == StrippedNonEmpty(SplitBlankLines(t))
      lines == SplitLines(t)
  IN  IF Len(byBlank) <= 1
        THEN SelectSeq([i \in 1..Len(lines) |-> Strip(lines[i])], KeepFragment)
        ELSE byBlank

\* sum(1 for keyword in important_keywords if keyword.lower() in para.lower())
\* A score that counts every occurrence of every keyword.
ScoreByFrequency(para) ==
  LET low == Lower(para)
      lowered == [k \in 1..Len(important_keywords) |-> Lower(important_keywords[k])]
      hits == {h \in (1..Len(low)) \X (1..Len(lowered)) : OccursAt(low, lowered[h[2]], h[1])}
  IN  Cardinality(hits)

LoweredKeywords ==
  [k \in 1..Len(important_keywords) |-> Lower(important_keywords[k])]

\* The first code points of the (lowered) keywords.
KeywordInitials == {LoweredKeywords[k][1] : k \in 1..Len(LoweredKeywords)}

\* The test `keyword.lower() in para.lower()` looks for an occurrence of the
\* keyword at any index; an occurrence can only start at an index that holds
\* the first code point of some keyword, so only those indices are tried.
Score(para) ==
  LET low == Lower(para)
      starts == {i \in 1..Len(low) : low[i] \in KeywordInitials}
  IN  Cardinality({k \in 1..Len(LoweredKeywords) :
                     \E i \in starts : OccursAt(low, LoweredKeywords[k], i)})

\* [(score, para) for para in paragraphs]
ScoreAll(paras) ==
  SubSeq([i \in 1..Len(paras) |-> <<Score(paras[i]), paras[i]>>], 1, Len(paras))

\* An order that reverses the entries of equal score.
SortsBeforeTiesReversed(sp, j, i) ==
  sp[j][1] > sp[i][1] \/ (sp[j][1] = sp[i][1] /\ j > i)

\* True when the entry at position j is placed before the entry at position
\* i by scored_paragraphs.sort(key=lambda x: x[0], reverse=True): list.sort
\* is stable, also with reverse=True.
SortsBefore(sp, j, i) == sp[j][1] > sp[i][1] \/ (sp[j][1] = sp[i][1] /\ j < i)

SortByScore(sp) ==
  LET n == Len(sp)
      rank(i) == Cardinality({j \in 1..n : SortsBefore(sp, j, i)}) + 1
  IN  [r \in 1..n |-> sp[CHOOSE i \in 1..n : rank(i) = r]]

\* A skip test that forgets the length of the paragraph at hand.
SkipTestIgnoringLength(total, para_length, limit) == total > limit /\ total > 0

\* A skip test that also refuses a paragraph that fills the budget exactly.
SkipTestAtLimit(total, para_length, limit) == total + para_length >= limit /\ total > 0

\* total_chars + para_length > char_limit and total_chars > 0
SkipTest(total, para_length, limit) == total + para_length > limit /\ total > 0

\* total_chars == 0 and para_length > char_limit
TruncateTest(total, para_length, limit) == total = 0 /\ para_length > limit

\* A truncation that forgets to put the period back.
TruncateWithoutPeriod(para, limit) == RSplitDotHead(Prefix(para, limit))

\* para[:char_limit].rsplit('.', 1)[0] + "."
Truncate(para, limit) == RSplitDotHead(Prefix(para, limit)) \o <<".">>

\* A stop test that needs more than 80% of the budget.
EnoughContentStrict(total, limit) == total * 10 > limit * 8

\* total_chars >= char_limit * 0.8 (the product is exact for every limit of
\* the table, so the comparison is the integer one)
EnoughContent(total, limit) == total * 10 >= limit * 8

\* f"\n\n---\n<page> Summary: {para_count} key section(s) | {word_count} words"
Footer(para_count, word_count) ==
  FooterHead \o IntToStr(para_count) \o FooterMid \o IntToStr(word_count) \o FooterTail

\* len(summary) < len(text) * 0.9, with summary already carrying the footer
HasMoreContent(summary_len, text_len) == summary_len * 10 < text_len * 9

\* Lines 279-284: the value returned when no paragraph was selected.
FallbackResult(paras, t, limit) ==
  LET first_para == IF Len(paras) > 0 THEN paras[1] ELSE t
  IN  IF Len(first_para) > limit THEN Truncate(first_para, limit) ELSE first_para

\* Lines 289-299: the joined paragraphs with the footer and, when the text is
\* longer, the closing note.
FooterResult(joined, para_count, t) ==
  LET withFooter == joined \o Footer(para_count, WordCount(joined))
  IN  IF HasMoreContent(Len(withFooter), Len(t))
        THEN withFooter \o MoreSuffix
        ELSE withFooter

(***************************************************************************)
(* Inputs: documents built from paragraph kinds                            *)
(***************************************************************************)
\* Most paragraphs of a generated document.
MaxParas == 3

\* A paragraph kind: the phrase it opens with, its length, the position of
\* its one period after the phrase (0: none) and the indices (in
\* important_keywords) of the keywords the phrase holds.
Kinds ==
  << [head |-> <<>>, len |-> 20, dot |-> 0, kws |-> {}],
     [head |-> <<"H", "e", "r", "e", "b", "y", " ">>, len |-> 21, dot |-> 0, kws |-> {4}],
     [head |-> <<"T", "h", "i", "s", " ", "A", "g", "r", "e", "e", "m", "e", "n", "t", " ", "S", "H", "A", "L", "L", " ">>,
      len |-> 300, dot |-> 0, kws |-> {1, 5}],
     [head |-> <<"S", "h", "a", "l", "l", " ", "h", "e", "r", "e", "b", "y", ";", " ", "T", "e", "r", "m", "i", "n", "a", "t", "i", "o", "n", " ", "s", "h", "a", "l", "l", " ">>,
      len |-> 500, dot |-> 0, kws |-> {4, 5, 12}],
     [head |-> <<>>, len |-> 2600, dot |-> 1100, kws |-> {}] >>

\* The letter that fills the paragraph at each position of a document; no
\* keyword holds any of them.
FillLetters == <<"x", "z", "q", "j", "k">>

\* The text of a paragraph of kind k at position pos: the opening phrase,
\* then words of five letters, with the period at its place.
ParaText(k, pos) ==
  LET kind == Kinds[k]
  IN  [j \in 1..kind.len |->
         IF j <= Len(kind.head) THEN kind.head[j]
         ELSE IF j = kind.dot THEN "."
         ELSE IF j % 6 = 0 /\ j < kind.len THEN " "
         ELSE FillLetters[pos]]

\* The layouts of a document: what separates its paragraphs (a newline, or a
\* blank line holding a space) and the whitespace before and after it.
Layouts ==
  << [sep |-> <<"\n">>, pad |-> <<>>],
     [sep |-> <<"\n", " ", "\n">>, pad |-> <<" ", "\n", "\t">>] >>

Docs ==
  [paras : UNION {[1..n -> 1..Len(Kinds)] : n \in 0..MaxParas},
   layout : 1..Len(Layouts)]

\* The text of a document.
Render(d) ==
  LET lay == Layouts[d.layout]
  IN  lay.pad
        \o Join(lay.sep, [i \in 1..Len(d.paras) |-> ParaText(d.paras[i], i)])
        \o lay.pad

Tiers == {"short", "medium", "long", "brief"}

(***************************************************************************)
(* The call summarize_text_smart(text, length) as a state machine          *)
(***************************************************************************)
VARIABLES
  doc,                \* the document the call was given (text = Render(doc) at entry)
  length,             \* parameter length
  text,               \* parameter text, reassigned by line 219
  paragraphs,         \* line 222 / 226
  char_limit,         \* line 235
  scored_paragraphs,  \* lines 246-252
  idx,                \* position of the for loop of line 258 in scored_paragraphs
  summary_parts,      \* line 255
  total_chars,        \* line 256
  summary,            \* line 287: the joined paragraphs, before the footer
  result,             \* the returned value
  pc                  \* "start", "loop", "assemble", "done"

(***************************************************************************)
(* The components of the model and the variables of each                   *)
(***************************************************************************)
\* Concurrent calls of summarize_text_smart (lines 203-299).
VARIABLES
  frames,    \* the local variables of the call of each caller
  returned   \* the values returned so far for each input (history)

\* The model cache of get_model (lines 9-20) and the handlers calling it.
VARIABLES
  g_model,      \* line 9: the module global _model (0: None, else the handler whose load made it)
  g_tokenizer,  \* line 10: the module global _tokenizer
  loads,        \* how many times the from_pretrained pair of lines 17-18 was begun (history)
  handlers      \* the position of each handler in get_model and the pair it returned

\* A call of extract_directions_verbatim (lines 87-120).
VARIABLES
  dir_text,     \* parameter text
  lines,        \* line 89
  line_no,      \* position of the for loop of line 93 in lines
  capture,      \* line 91
  directions,   \* line 88
  captured_at,  \* the positions of the lines the loop appended (history)
  dir_result,   \* the returned list
  dir_pc        \* \"split\", \"loop\", \"done\"

\* A call of chunk_by_tokens (lines 57-85).
VARIABLES
  sentences,       \* line 59: the sentences, each given by the number of tokens it encodes to
  sent_no,         \* position of the for loop of line 65 in sentences
  chunks,          \* line 61: each chunk as the positions of the sentences joined into it
  current_chunk,   \* line 62
  current_length,  \* line 63
  chunk_pc         \* \"loop\", \"done\"

\* A call of summarize_text_ai (lines 124-199).
VARIABLES
  ai_text,        \* parameter text
  ai_length,      \* parameter length
  ai_directions,  \* line 132
  clean_text,     \* lines 137-139
  chunks_left,    \* the chunks of chunks[:5] the loop of line 145 has yet to summarize
  raised_at,      \* the step of the try block that raised, \"none\" if none did
  propagated,     \* an exception left the call
  ai_result,      \* the returned value
  ai_pc           \* the statement the call is at

\* The document table behind the /documents endpoints (documents.py, documents2.py).
VARIABLES
  documents,  \* the rows of the Document table, by id
  response    \* the response to the last request

\* The in-memory upload store of uploads.py and the /nlp endpoints that use it (nlp.py).
VARIABLES
  upload_store,  \* _upload_store: the entries, by document id
  reply,         \* the outcome of the last operation on the store
  summarized     \* history: the ids /nlp/summarize has stored a summary for

smartVars ==
  <<doc, length, text, paragraphs, char_limit, scored_paragraphs, idx,
    summary_parts, total_chars, summary, result, pc>>

callsVars ==
  <<frames, returned>>

loaderVars ==
  <<g_model, g_tokenizer, loads, handlers>>

directionsVars ==
  <<dir_text, lines, line_no, capture, directions, captured_at, dir_result,
    dir_pc>>

chunksVars ==
  <<sentences, sent_no, chunks, current_chunk, current_length, chunk_pc>>

aiVars ==
  <<ai_text, ai_length, ai_directions, clean_text, chunks_left, raised_at,
    propagated, ai_result, ai_pc>>

recordsVars ==
  <<documents, response>>

uploadsVars ==
  <<upload_store, reply, summarized>>

vars ==
  <<smartVars, callsVars, loaderVars, directionsVars, chunksVars, aiVars,
    recordsVars, uploadsVars>>

\* No call of summarize_text_smart is being followed step by step.
SmartAtRest ==
  /\ doc = [paras |-> <<>>, layout |-> 1]
  /\ length = "medium"
  /\ text = <<>>
  /\ paragraphs = <<>>
  /\ char_limit = 0
  /\ scored_paragraphs = <<>>
  /\ idx = 1
  /\ summary_parts = <<>>
  /\ total_chars = 0
  /\ summary = <<>>
  /\ result = <<>>
  /\ pc = "idle"

\* No concurrent calls of summarize_text_smart are in progress.
CallsAtRest ==
  /\ frames = <<>>
  /\ returned = <<>>

\* No handler has called get_model.
LoaderAtRest ==
  /\ g_model = 0
  /\ g_tokenizer = 0
  /\ loads = 0
  /\ handlers = <<>>

\* No call of extract_directions_verbatim is in progress.
DirectionsAtRest ==
  /\ dir_text = <<>>
  /\ lines = <<>>
  /\ line_no = 1
  /\ capture = FALSE
  /\ directions = <<>>
  /\ captured_at = {}
  /\ dir_result = <<>>
  /\ dir_pc = "idle"

\* No call of chunk_by_tokens is in progress.
ChunksAtRest ==
  /\ sentences = <<>>
  /\ sent_no = 1
  /\ chunks = <<>>
  /\ current_chunk = <<>>
  /\ current_length = 0
  /\ chunk_pc = "idle"

\* No call of summarize_text_ai is in progress.
AiAtRest ==
  /\ ai_text = <<>>
  /\ ai_length = ""
  /\ ai_directions = <<>>
  /\ clean_text = <<>>
  /\ chunks_left = 0
  /\ raised_at = "none"
  /\ propagated = FALSE
  /\ ai_result = <<>>
  /\ ai_pc = "idle"

\* The /documents endpoints have served no request.
RecordsAtRest ==
  /\ documents = <<>>
  /\ response = [op |-> "none"]

\* The upload store is empty and no request has used it.
UploadsAtRest ==
  /\ upload_store = <<>>
  /\ reply = [op |-> "none"]
  /\ summarized = {}

\* What summarize_text_smart leaves alone.
outsideSmart ==
  <<callsVars, loaderVars, directionsVars, chunksVars, aiVars, recordsVars,
    uploadsVars>>

OutsideSmartAtRest ==
  /\ CallsAtRest
  /\ LoaderAtRest
  /\ DirectionsAtRest
  /\ ChunksAtRest
  /\ AiAtRest
  /\ RecordsAtRest
  /\ UploadsAtRest

\* What the concurrent calls leaves alone.
outsideCalls ==
  <<smartVars, loaderVars, directionsVars, chunksVars, aiVars, recordsVars,
    uploadsVars>>

OutsideCallsAtRest ==
  /\ SmartAtRest
  /\ LoaderAtRest
  /\ DirectionsAtRest
  /\ ChunksAtRest
  /\ AiAtRest
  /\ RecordsAtRest
  /\ UploadsAtRest

\* What get_model leaves alone.
outsideLoader ==
  <<smartVars, callsVars, directionsVars, chunksVars, aiVars, recordsVars,
    uploadsVars>>

OutsideLoaderAtRest ==
  /\ SmartAtRest
  /\ CallsAtRest
  /\ DirectionsAtRest
  /\ ChunksAtRest
  /\ AiAtRest
  /\ RecordsAtRest
  /\ UploadsAtRest

\* What extract_directions_verbatim leaves alone.
outsideDirections ==
  <<smartVars, callsVars, loaderVars, chunksVars, aiVars, recordsVars,
    uploadsVars>>

OutsideDirectionsAtRest ==
  /\ SmartAtRest
  /\ CallsAtRest
  /\ LoaderAtRest
  /\ ChunksAtRest
  /\ AiAtRest
  /\ RecordsAtRest
  /\ UploadsAtRest

\* What chunk_by_tokens leaves alone.
outsideChunks ==
  <<smartVars, callsVars, loaderVars, directionsVars, aiVars, recordsVars,
    uploadsVars>>

OutsideChunksAtRest ==
  /\ SmartAtRest
  /\ CallsAtRest
  /\ LoaderAtRest
  /\ DirectionsAtRest
  /\ AiAtRest
  /\ RecordsAtRest
  /\ UploadsAtRest

\* What summarize_text_ai leaves alone.
outsideAi ==
  <<smartVars, callsVars, loaderVars, directionsVars, chunksVars,
    recordsVars, uploadsVars>>

OutsideAiAtRest ==
  /\ SmartAtRest
  /\ CallsAtRest
  /\ LoaderAtRest
  /\ DirectionsAtRest
  /\ ChunksAtRest
  /\ RecordsAtRest
  /\ UploadsAtRest

\* What a /documents request leaves alone.
outsideRecords ==
  <<smartVars, callsVars, loaderVars, directionsVars, chunksVars, aiVars,
    uploadsVars>>

OutsideRecordsAtRest ==
  /\ SmartAtRest
  /\ CallsAtRest
  /\ LoaderAtRest
  /\ DirectionsAtRest
  /\ ChunksAtRest
  /\ AiAtRest
  /\ UploadsAtRest

\* What a request on the upload store leaves alone.
outsideUploads ==
  <<smartVars, callsVars, loaderVars, directionsVars, chunksVars, aiVars,
    recordsVars>>

OutsideUploadsAtRest ==
  /\ SmartAtRest
  /\ CallsAtRest
  /\ LoaderAtRest
  /\ DirectionsAtRest
  /\ ChunksAtRest
  /\ AiAtRest
  /\ RecordsAtRest

Init ==
  /\ doc \in Docs
  /\ length \in Tiers
  /\ text = Render(doc)
  /\ paragraphs = <<>>
  /\ char_limit = 0
  /\ scored_paragraphs = <<>>
  /\ idx = 1
  /\ summary_parts = <<>>
  /\ total_chars = 0
  /\ summary = <<>>
  /\ result = <<>>
  /\ pc = "start"
  /\ OutsideSmartAtRest

\* Lines 215-216: the empty-input return.
ReturnSentinel ==
  /\ pc = "start"
  /\ IsBlank(text)
  /\ result' = Sentinel
  /\ pc' = "done"
  /\ UNCHANGED <<doc, length, text, paragraphs, char_limit, scored_paragraphs,
                 idx, summary_parts, total_chars, summary>>
  /\ UNCHANGED outsideSmart

\* Lines 219-256: strip the text, split it into paragraphs, resolve the
\* budget, score and sort the paragraphs and start the accumulation.
Prepare ==
  /\ pc = "start"
  /\ ~IsBlank(text)
  /\ text' = Strip(text)
  /\ paragraphs' = SplitParagraphs(text')
  /\ char_limit' = CharLimit(length)
  /\ \E scored \in {ScoreAll(paragraphs')} :
       scored_paragraphs' = SortByScore(scored)
  /\ idx' = 1
  /\ summary_parts' = <<>>
  /\ total_chars' = 0
  /\ pc' = "loop"
  /\ UNCHANGED <<doc, length, summary, result>>
  /\ UNCHANGED outsideSmart

\* Lines 262-263: the paragraph does not fit; continue with the next one.
SkipPara ==
  /\ pc = "loop"
  /\ idx <= Len(scored_paragraphs)
  /\ SkipTest(total_chars, Len(scored_paragraphs[idx][2]), char_limit)
  /\ idx' = idx + 1
  /\ UNCHANGED <<doc, length, text, paragraphs, char_limit, scored_paragraphs,
                 summary_parts, total_chars, summary, result, pc>>
  /\ UNCHANGED outsideSmart

\* Lines 266-270: the first paragraph is too long; truncate it and break.
TruncatePara ==
  /\ pc = "loop"
  /\ idx <= Len(scored_paragraphs)
  /\ ~SkipTest(total_chars, Len(scored_paragraphs[idx][2]), char_limit)
  /\ TruncateTest(total_chars, Len(scored_paragraphs[idx][2]), char_limit)
  /\ LET truncated == Truncate(scored_paragraphs[idx][2], char_limit)
     IN  /\ summary_parts' = Append(summary_parts, truncated)
         /\ total_chars' = total_chars + Len(truncated)
  /\ pc' = "assemble"
  /\ UNCHANGED <<doc, length, text, paragraphs, char_limit, scored_paragraphs,
                 idx, summary, result>>
  /\ UNCHANGED outsideSmart

\* Lines 272-277: include the paragraph; break once there is enough content.
IncludePara ==
  /\ pc = "loop"
  /\ idx <= Len(scored_paragraphs)
  /\ ~SkipTest(total_chars, Len(scored_paragraphs[idx][2]), char_limit)
  /\ ~TruncateTest(total_chars, Len(scored_paragraphs[idx][2]), char_limit)
  /\ summary_parts' = Append(summary_parts, scored_paragraphs[idx][2])
  /\ total_chars' = total_chars + Len(scored_paragraphs[idx][2])
  /\ IF EnoughContent(total_chars', char_limit)
       THEN pc' = "assemble" /\ idx' = idx
       ELSE pc' = "loop" /\ idx' = idx + 1
  /\ UNCHANGED <<doc, length, text, paragraphs, char_limit, scored_paragraphs,
                 summary, result>>
  /\ UNCHANGED outsideSmart

\* Line 258: the for loop ran out of paragraphs.
LoopEnd ==
  /\ pc = "loop"
  /\ idx > Len(scored_paragraphs)
  /\ pc' = "assemble"
  /\ UNCHANGED <<doc, length, text, paragraphs, char_limit, scored_paragraphs,
                 idx, summary_parts, total_chars, summary, result>>
  /\ UNCHANGED outsideSmart

\* Lines 279-284: nothing was selected.
ReturnFallback ==
  /\ pc = "assemble"
  /\ Len(summary_parts) = 0
  /\ result' = FallbackResult(paragraphs, text, char_limit)
  /\ pc' = "done"
  /\ UNCHANGED <<doc, length, text, paragraphs, char_limit, scored_paragraphs,
                 idx, summary_parts, total_chars, summary>>
  /\ UNCHANGED outsideSmart

\* Lines 286-299: join, footer, closing note.
ReturnSummary ==
  /\ pc = "assemble"
  /\ Len(summary_parts) > 0
  /\ summary' = Join(ParaSep, summary_parts)
  /\ result' = FooterResult(summary', Len(summary_parts), text)
  /\ pc' = "done"
  /\ UNCHANGED <<doc, length, text, paragraphs, char_limit, scored_paragraphs,
                 idx, summary_parts, total_chars>>
  /\ UNCHANGED outsideSmart

Next ==
  \/ ReturnSentinel
  \/ Prepare
  \/ SkipPara
  \/ TruncatePara
  \/ IncludePara
  \/ LoopEnd
  \/ ReturnFallback
  \/ ReturnSummary

Spec == Init /\ [][Next]_vars

(***************************************************************************)
(* Vocabulary of the properties                                            *)
(***************************************************************************)
RECURSIVE SumLen(_)
\* The sum of the lengths of the strings of a list.
SumLen(parts) == IF Len(parts) = 0 THEN 0 ELSE Len(parts[1]) + SumLen(Tail(parts))

\* The text the call was given.
GivenText == Render(doc)

\* The call was given an empty or whitespace-only text: a document without
\* paragraphs is nothing but its padding.
GivenBlank == Len(doc.paras) = 0

\* The call has returned something other than the empty-input sentinel.
ReturnedSummary == pc = "done" /\ ~GivenBlank

\* The paragraph section of the returned value: the joined paragraphs, or the
\* whole value when the fallback returned a bare paragraph.
Section == IF Len(summary_parts) = 0 THEN result ELSE summary

\* The first paragraph the loop considers is alone longer than the budget.
FirstOversized ==
  Len(scored_paragraphs) > 0 /\ Len(scored_paragraphs[1][2]) > char_limit

\* r ends with the string tail.
EndsWith(r, tail) ==
  Len(r) >= Len(tail) /\ OccursAt(r, tail, Len(r) - Len(tail) + 1)

\* The i-th paragraph the document was built from.
DocPara(i) == ParaText(doc.paras[i], i)

\* The paragraphs the document was built from, in document order.
DocParas == [i \in 1..Len(doc.paras) |-> DocPara(i)]

\* The text was split on single newlines: its layout has no blank line, or
\* it has but one paragraph.
LineSplitCase == doc.layout = 1 \/ Len(doc.paras) = 1

(***************************************************************************)
(* C1  Budget respect                                                      *)
(***************************************************************************)
\* C1 as claimed: in every returned summary the joined paragraph section is
\* at most char_limit code points long, or at most char_limit + 1 when the
\* first considered paragraph alone exceeds char_limit.
C1_SectionWithinBudget ==
  ReturnedSummary =>
    IF FirstOversized
      THEN Len(Section) <= char_limit + 1
      ELSE Len(Section) <= char_limit

\* C1 as amended: the lengths of the selected paragraphs sum to at most
\* char_limit, so the joined section is at most char_limit plus the two code
\* points of each blank-line separator between them; when the first
\* considered paragraph alone exceeds char_limit the truncated section is at
\* most char_limit + 1 long.
C1_PartsWithinBudget ==
  ReturnedSummary =>
    IF FirstOversized
      THEN Len(summary_parts) = 1 /\ Len(Section) <= char_limit + 1
      ELSE IF Len(summary_parts) = 0
        THEN Len(Section) <= char_limit + 1
        ELSE /\ SumLen(summary_parts) <= char_limit
             /\ Len(Section) <= char_limit + Len(ParaSep) * (Len(summary_parts) - 1)

\* Several paragraphs were joined and the section is longer than the budget
\* although their lengths fit it.
C1_Witness ==
  /\ ReturnedSummary
  /\ ~FirstOversized
  /\ Len(summary_parts) >= 2
  /\ SumLen(summary_parts) <= char_limit
  /\ Len(summary) > char_limit

(***************************************************************************)
(* C2  Footer presence                                                     *)
(***************************************************************************)
\* r is some text followed by the footer line that reports n paragraphs and
\* the word count of that text, with or without the closing note.
HasFooter(r, n) ==
  \E cut \in 0..Len(r) :
    /\ OccursAt(r, FooterHead, cut + 1)
    /\ LET body == SubSeq(r, 1, cut)
           foot == Footer(n, WordCount(body))
       IN  r = body \o foot \/ r = body \o foot \o MoreSuffix

\* C2 as claimed: every returned value other than the sentinel ends with the
\* footer reporting the number of paragraphs included and the word count of
\* the assembled text, also when the split yields no paragraph and the
\* fallback returns (one paragraph, the fallback text).
C2_FooterOnEveryOutput ==
  ReturnedSummary =>
    HasFooter(result, IF Len(summary_parts) = 0 THEN 1 ELSE Len(summary_parts))

(***************************************************************************)
(* C3  Closing note                                                        *)
(***************************************************************************)
\* C3 as claimed: whenever the joined selected paragraphs are shorter than
\* 90% of the trimmed text, the returned value carries the closing note.
C3_NoteWhenShorter ==
  (ReturnedSummary /\ Len(summary_parts) > 0 /\ Len(summary) * 10 < Len(text) * 9)
    => EndsWith(result, MoreSuffix)

(***************************************************************************)
(* C4  Fragment filter of the single-newline split                         *)
(***************************************************************************)
\* C4 as claimed: when the text is split on single newlines, exactly the
\* fragments shorter than 20 code points are discarded; one of length 20 or
\* more is kept.
C4_KeepsFrom20 ==
  (pc = "loop" /\ idx = 1 /\ LineSplitCase)
    => paragraphs = SelectSeq(DocParas, LAMBDA p : Len(p) >= 20)

\* C4 as amended: when the text is split on single newlines, exactly the
\* fragments of at most 20 code points are discarded; a fragment is kept if
\* and only if its trimmed length is 21 or more.
C4_KeepsAbove20 ==
  (pc = "loop" /\ idx = 1 /\ LineSplitCase)
    => paragraphs = SelectSeq(DocParas, LAMBDA p : Len(p) > 20)

\* A single-newline split met a fragment of exactly 20 code points and one
\* of 21, dropped the first and kept the second.
C4_Witness ==
  /\ pc = "loop"
  /\ doc.layout = 1
  /\ \E i, j \in 1..Len(doc.paras) :
       /\ Len(DocPara(i)) = 20
       /\ Len(DocPara(j)) = 21
       /\ \A k \in 1..Len(paragraphs) : paragraphs[k] # DocPara(i)
       /\ \E k \in 1..Len(paragraphs) : paragraphs[k] = DocPara(j)

(***************************************************************************)
(* C5  Order of the output                                                 *)
(***************************************************************************)
\* The paragraph p is one of the selected parts.
InParts(p) == \E m \in 1..Len(summary_parts) : summary_parts[m] = p

\* The position at which the split produced the paragraph p.
PosInSplit(p) == CHOOSE i \in 1..Len(paragraphs) : paragraphs[i] = p

\* The score the function gave the paragraph p.
ScoreGiven(p) ==
  scored_paragraphs[CHOOSE k \in 1..Len(scored_paragraphs) : scored_paragraphs[k][2] = p][1]

\* C5: the paragraphs of the output are in descending score order, those of
\* equal score in the order in which the split produced them; the order of
\* the document is not restored.
C5_ScoreOrderStable ==
  (pc = "done" /\ Len(summary_parts) >= 2) =>
    \A i, j \in 1..Len(summary_parts) :
      i < j =>
        \/ ScoreGiven(summary_parts[i]) > ScoreGiven(summary_parts[j])
        \/ /\ ScoreGiven(summary_parts[i]) = ScoreGiven(summary_parts[j])
           /\ PosInSplit(summary_parts[i]) < PosInSplit(summary_parts[j])

\* An output with two paragraphs of equal score, and with a paragraph placed
\* before one that precedes it in the document.
C5_Witness ==
  /\ pc = "done"
  /\ Len(summary_parts) >= 3
  /\ \E i, j \in 1..Len(summary_parts) :
       i < j /\ ScoreGiven(summary_parts[i]) = ScoreGiven(summary_parts[j])
  /\ \E i, j \in 1..Len(summary_parts) :
       i < j /\ PosInSplit(summary_parts[i]) > PosInSplit(summary_parts[j])

(***************************************************************************)
(* C6  Score                                                               *)
(***************************************************************************)
\* The position in the document of the paragraph p, told by the letter that
\* fills it (the last code point of every paragraph is its fill letter).
Origin(p) == CHOOSE i \in 1..Len(doc.paras) : FillLetters[i] = p[Len(p)]

\* The indices of the keywords written into the paragraph p of the document.
Planted(p) == Kinds[doc.paras[Origin(p)]].kws

\* C6: a paragraph's score is the number of distinct keywords that occur in
\* it, whatever their case and however often, hence between 0 and the size of
\* the keyword list; a paragraph whose keywords are shall, hereby and
\* termination scores 3 and is considered before every paragraph that scores 0.
C6_ScoreCountsDistinctKeywords ==
  (pc = "loop" /\ idx = 1) =>
    \A k \in 1..Len(scored_paragraphs) :
      LET score == scored_paragraphs[k][1]
          kws == Planted(scored_paragraphs[k][2])
      IN  /\ score = Cardinality(kws)
          /\ score \in 0..Len(important_keywords)
          /\ kws = {4, 5, 12} =>
               /\ score = 3
               /\ \A b \in 1..Len(scored_paragraphs) :
                    scored_paragraphs[b][1] = 0 => k < b

\* A paragraph with shall (twice, in two cases), hereby and termination that
\* follows a paragraph without keywords in the document is considered first.
C6_Witness ==
  /\ pc = "loop"
  /\ Len(scored_paragraphs) >= 2
  /\ Planted(scored_paragraphs[1][2]) = {4, 5, 12}
  /\ scored_paragraphs[1][1] = 3
  /\ scored_paragraphs[2][1] = 0
  /\ PosInSplit(scored_paragraphs[1][2]) > PosInSplit(scored_paragraphs[2][2])

(***************************************************************************)
(* C7  Skipping                                                            *)
(***************************************************************************)
\* The loop has dealt with the k-th paragraph of the sorted list.
Considered(k) == k < idx \/ (pc \in {"assemble", "done"} /\ k = idx)

RECURSIVE IncludedBefore(_)
\* The running total when the k-th paragraph of the sorted list was
\* considered: the lengths of the selected paragraphs that precede it.
IncludedBefore(k) ==
  IF k <= 1 THEN 0
  ELSE IncludedBefore(k - 1)
         + (IF InParts(scored_paragraphs[k - 1][2])
              THEN Len(scored_paragraphs[k - 1][2]) ELSE 0)

\* C7: outside the truncation path, a considered paragraph is left out
\* exactly when the running total was nonzero and the paragraph would have
\* pushed it over char_limit; the scan goes on after a skip, so a later
\* paragraph that fits is included.
C7_SkippedExactlyWhenOverBudget ==
  (pc \in {"loop", "assemble", "done"} /\ ~FirstOversized) =>
    \A k \in 1..Len(scored_paragraphs) :
      LET p == scored_paragraphs[k][2]
          over == IncludedBefore(k) > 0 /\ IncludedBefore(k) + Len(p) > char_limit
      IN  IF Considered(k) THEN InParts(p) <=> ~over ELSE ~InParts(p)

\* A paragraph was skipped with a nonzero total and a later one was included.
C7_Witness ==
  /\ pc = "done"
  /\ ~FirstOversized
  /\ \E k, m \in 1..Len(scored_paragraphs) :
       /\ 1 < k /\ k < m
       /\ ~InParts(scored_paragraphs[k][2])
       /\ InParts(scored_paragraphs[m][2])

(***************************************************************************)
(* C8  Stopping                                                            *)
(***************************************************************************)
\* The selected parts but the last.
EarlierParts == SubSeq(summary_parts, 1, Len(summary_parts) - 1)

\* C8 as claimed: the loop runs only while the total is below 80% of
\* char_limit, nothing is included once the total has reached 80%, and the
\* accumulation ends only with the total at 80% or more or with every
\* paragraph considered.
C8_StopsOnlyAtEightyPercent ==
  /\ pc = "loop" => total_chars * 10 < char_limit * 8
  /\ (pc \in {"loop", "assemble", "done"} /\ ~GivenBlank) =>
       SumLen(EarlierParts) * 10 < char_limit * 8
  /\ (pc \in {"assemble", "done"} /\ ~GivenBlank) =>
       \/ total_chars * 10 >= char_limit * 8
       \/ idx >= Len(scored_paragraphs)

\* C8 as amended: the same, except that the truncation of an oversized first
\* paragraph ends the accumulation after that one paragraph whatever the
\* total.
C8_StopsAtEightyPercentOrTruncation ==
  /\ pc = "loop" => total_chars * 10 < char_limit * 8
  /\ (pc \in {"loop", "assemble", "done"} /\ ~GivenBlank) =>
       SumLen(EarlierParts) * 10 < char_limit * 8
  /\ (pc \in {"assemble", "done"} /\ ~GivenBlank) =>
       \/ total_chars * 10 >= char_limit * 8
       \/ idx >= Len(scored_paragraphs)
       \/ FirstOversized /\ Len(summary_parts) = 1

\* The accumulation stopped at 80% or more with a paragraph left that would
\* still have fitted.
C8_Witness ==
  /\ pc = "done"
  /\ ~FirstOversized
  /\ total_chars * 10 >= char_limit * 8
  /\ \E k \in 1..Len(scored_paragraphs) :
       /\ k > idx
       /\ total_chars + Len(scored_paragraphs[k][2]) <= char_limit
       /\ ~InParts(scored_paragraphs[k][2])

(***************************************************************************)
(* C9  Truncation                                                          *)
(***************************************************************************)
\* The positions of the periods among the first char_limit code points of p.
DotsWithinLimit(p) == {i \in 1..char_limit : i <= Len(p) /\ p[i] = "."}

\* C9: when the first considered paragraph is longer than char_limit and has
\* a period among its first char_limit code points, the paragraph section is
\* that paragraph up to and including the last such period, nothing else is
\* included and the footer reports 1 section.
C9_TruncatedAtLastPeriod ==
  (pc = "done" /\ FirstOversized) =>
    LET p == scored_paragraphs[1][2]
        dots == DotsWithinLimit(p)
    IN  dots # {} =>
          /\ summary = SubSeq(p, 1, SetMax(dots))
          /\ Len(summary_parts) = 1
          /\ OccursAt(result, FooterHead \o <<"1">> \o FooterMid, Len(summary) + 1)

\* An oversized first paragraph with a period inside the budget was cut at
\* the period while other paragraphs were left out.
C9_Witness ==
  /\ pc = "done"
  /\ FirstOversized
  /\ DotsWithinLimit(scored_paragraphs[1][2]) # {}
  /\ Len(scored_paragraphs) >= 2
  /\ Len(summary) < char_limit
  /\ summary[Len(summary)] = "."

(***************************************************************************)
(* C10  Empty input                                                        *)
(***************************************************************************)
\* C10: for every tier the call returns the sentinel, and nothing else,
\* exactly when the given text is empty or whitespace only; and in the loop
\* and at the fallback test one of the branches of the code is always taken,
\* so the call goes on to its return.
C10_SentinelExactlyWhenBlank ==
  /\ pc = "done" => (result = Sentinel <=> GivenBlank)
  /\ pc \in {"loop", "assemble"} => ENABLED Next

\* The sentinel was returned for a text of whitespace under an unknown tier.
C10_Witness ==
  /\ pc = "done"
  /\ result = Sentinel
  /\ Len(text) > 0
  /\ length = "brief"

(***************************************************************************)
(* C11  Tier mapping                                                       *)
(***************************************************************************)
\* The budget the tier table gives the tier of the call.
TierBudget ==
  IF length = "short" THEN 1000
  ELSE IF length = "long" THEN 5000
  ELSE 2500

\* C11: once resolved, char_limit is 1000 for tier short, 2500 for medium,
\* 5000 for long and 2500 for any other tier; and in the loop a paragraph is
\* skipped exactly when the total is nonzero and the paragraph would push it
\* over that budget, and truncated exactly when the total is zero and the
\* paragraph alone is longer than that budget.
C11_BudgetByTier ==
  /\ (pc \in {"loop", "assemble"} \/ (pc = "done" /\ ~GivenBlank)) =>
       char_limit = TierBudget
  /\ (pc = "loop" /\ idx <= Len(scored_paragraphs)) =>
       LET n == Len(scored_paragraphs[idx][2])
       IN  /\ ENABLED SkipPara <=>
                (total_chars > 0 /\ total_chars + n > TierBudget)
           /\ ENABLED TruncatePara <=> (total_chars = 0 /\ n > TierBudget)

\* A call with an unrecognised tier truncated a paragraph longer than 2500.
C11_Witness ==
  /\ length = "brief"
  /\ pc = "done"
  /\ FirstOversized
  /\ Len(summary_parts) = 1
  /\ Len(summary_parts[1]) < Len(scored_paragraphs[1][2])

(***************************************************************************)
(* Concurrent and repeated calls of summarize_text_smart                   *)
(***************************************************************************)
\* The callers: two request handlers running at once.
Callers == {"a", "b"}

\* A paragraph of 1001 code points without keywords, its one period at 400.
LongPara ==
  SubSeq([j \in 1..1001 |->
            IF j = 400 THEN "." ELSE IF j % 6 = 0 THEN " " ELSE "j"], 1, 1001)

\* The texts the callers pass: whitespace only; a paragraph of 500 with
\* keywords after the long paragraph, a blank line between them; the long
\* paragraph alone; a single line of 20 code points.
CallTexts ==
  << <<" ", "\n">>,
     LongPara \o <<"\n", "\n">> \o SubSeq(ParaText(4, 1), 1, 500),
     LongPara,
     SubSeq(ParaText(1, 1), 1, 20) >>

\* The inputs (text, length) the callers pass.
CallInputs ==
  {<<1, "short">>, <<2, "short">>, <<2, "long">>, <<3, "short">>,
   <<4, "medium">>}

\* The frame of a caller that is in no call.
NoCall ==
  [input |-> <<0, "">>, text |-> <<>>, length |-> "", paragraphs |-> <<>>,
   char_limit |-> 0, scored_paragraphs |-> <<>>, idx |-> 1,
   summary_parts |-> <<>>, total_chars |-> 0, pc |-> "none"]

InitCalls ==
  /\ frames = [c \in Callers |-> NoCall]
  /\ returned = [i \in CallInputs |-> {}]
  /\ OutsideCallsAtRest

\* The budget the tier table gives a call, as if the last resolved budget
\* were kept in a variable of the module that every call reads.
CallBudgetShared(c) ==
  LET resolved == {d \in Callers : frames[d].char_limit # 0}
  IN  IF resolved = {} THEN CharLimit(frames[c].length)
      ELSE frames[CHOOSE d \in resolved : TRUE].char_limit

\* Line 235: the budget of the call of caller c, from its own parameter.
CallBudget(c) == CharLimit(frames[c].length)

\* Line 203: caller c calls summarize_text_smart(text, length).
CallEnter(c, i) ==
  /\ frames[c].pc = "none"
  /\ frames' = [frames EXCEPT ![c] =
       [NoCall EXCEPT !.input = i, !.text = CallTexts[i[1]], !.length = i[2],
                      !.pc = "start"]]
  /\ UNCHANGED returned
  /\ UNCHANGED outsideCalls

\* The call of caller c returns the value r; its frame is dropped.
CallReturns(c, r) ==
  /\ returned' = [returned EXCEPT ![frames[c].input] = @ \cup {r}]
  /\ frames' = [frames EXCEPT ![c] = NoCall]
  /\ UNCHANGED outsideCalls

\* Lines 215-216.
CallReturnSentinel(c) ==
  /\ frames[c].pc = "start"
  /\ IsBlank(frames[c].text)
  /\ CallReturns(c, Sentinel)

\* Lines 219-256.
CallPrepare(c) ==
  /\ frames[c].pc = "start"
  /\ ~IsBlank(frames[c].text)
  /\ \E t \in {Strip(frames[c].text)} :
     \E paras \in {SplitParagraphs(t)} :
     \E scored \in {ScoreAll(paras)} :
       frames' = [frames EXCEPT ![c] =
         [@ EXCEPT !.text = t, !.paragraphs = paras,
                   !.char_limit = CallBudget(c),
                   !.scored_paragraphs = SortByScore(scored),
                   !.idx = 1, !.summary_parts = <<>>, !.total_chars = 0,
                   !.pc = "loop"]]
  /\ UNCHANGED returned
  /\ UNCHANGED outsideCalls

\* The paragraph the loop of caller c is at.
CallPara(c) == frames[c].scored_paragraphs[frames[c].idx][2]

\* The loop of caller c is at a paragraph.
CallInLoop(c) ==
  /\ frames[c].pc = "loop"
  /\ frames[c].idx <= Len(frames[c].scored_paragraphs)

\* Lines 262-263.
CallSkipPara(c) ==
  /\ CallInLoop(c)
  /\ SkipTest(frames[c].total_chars, Len(CallPara(c)), frames[c].char_limit)
  /\ frames' = [frames EXCEPT ![c].idx = @ + 1]
  /\ UNCHANGED returned
  /\ UNCHANGED outsideCalls

\* Lines 266-270.
CallTruncatePara(c) ==
  /\ CallInLoop(c)
  /\ ~SkipTest(frames[c].total_chars, Len(CallPara(c)), frames[c].char_limit)
  /\ TruncateTest(frames[c].total_chars, Len(CallPara(c)), frames[c].char_limit)
  /\ \E truncated \in {Truncate(CallPara(c), frames[c].char_limit)} :
       frames' = [frames EXCEPT ![c] =
         [@ EXCEPT !.summary_parts = Append(@, truncated),
                   !.total_chars = @ + Len(truncated),
                   !.pc = "assemble"]]
  /\ UNCHANGED returned
  /\ UNCHANGED outsideCalls

\* Lines 272-277.
CallIncludePara(c) ==
  /\ CallInLoop(c)
  /\ ~SkipTest(frames[c].total_chars, Len(CallPara(c)), frames[c].char_limit)
  /\ ~TruncateTest(frames[c].total_chars, Len(CallPara(c)), frames[c].char_limit)
  /\ \E total \in {frames[c].total_chars + Len(CallPara(c))} :
       frames' = [frames EXCEPT ![c] =
         [@ EXCEPT !.summary_parts = Append(@, CallPara(c)),
                   !.total_chars = total,
                   !.idx = IF EnoughContent(total, frames[c].char_limit)
                             THEN @ ELSE @ + 1,
                   !.pc = IF EnoughContent(total, frames[c].char_limit)
                            THEN "assemble" ELSE "loop"]]
  /\ UNCHANGED returned
  /\ UNCHANGED outsideCalls

\* Line 258: the loop ran out of paragraphs.
CallLoopEnd(c) ==
  /\ frames[c].pc = "loop"
  /\ frames[c].idx > Len(frames[c].scored_paragraphs)
  /\ frames' = [frames EXCEPT ![c].pc = "assemble"]
  /\ UNCHANGED returned
  /\ UNCHANGED outsideCalls

\* Lines 279-284.
CallReturnFallback(c) ==
  /\ frames[c].pc = "assemble"
  /\ Len(frames[c].summary_parts) = 0
  /\ CallReturns(c, FallbackResult(frames[c].paragraphs, frames[c].text,
                                   frames[c].char_limit))

\* Lines 286-299.
CallReturnSummary(c) ==
  /\ frames[c].pc = "assemble"
  /\ Len(frames[c].summary_parts) > 0
  /\ \E joined \in {Join(ParaSep, frames[c].summary_parts)} :
       CallReturns(c, FooterResult(joined, Len(frames[c].summary_parts),
                                   frames[c].text))

NextCalls ==
  \E c \in Callers :
    \/ \E i \in CallInputs : CallEnter(c, i)
    \/ CallReturnSentinel(c)
    \/ CallPrepare(c)
    \/ CallSkipPara(c)
    \/ CallTruncatePara(c)
    \/ CallIncludePara(c)
    \/ CallLoopEnd(c)
    \/ CallReturnFallback(c)
    \/ CallReturnSummary(c)

SpecCalls == InitCalls /\ [][NextCalls]_vars

(***************************************************************************)
(* C12  Purity                                                             *)
(***************************************************************************)
\* C12: whatever calls came before and whatever calls run interleaved with
\* it, every call with the same text and tier returns the same value: no
\* input has returned two different values.
C12_SameInputSameOutput ==
  \A i \in CallInputs : Cardinality(returned[i]) <= 1

\* Two calls with the same input are both in their loops, interleaved, an
\* earlier call with that input has returned, and so has a call with the
\* same text and the other tier, with another value.
C12_Witness ==
  /\ frames["a"].pc = "loop"
  /\ frames["b"].pc = "loop"
  /\ frames["a"].input = <<2, "short">>
  /\ frames["b"].input = <<2, "short">>
  /\ frames["a"].idx # frames["b"].idx
  /\ returned[<<2, "short">>] # {}
  /\ returned[<<2, "long">>] # {}
  /\ returned[<<2, "long">>] # returned[<<2, "short">>]

(***************************************************************************)
(* get_model: the lazily loaded model cache                                *)
(***************************************************************************)
\* Most request handlers running at once (the endpoints are plain functions,
\* which the framework runs on the threads of a pool).
MaxHandlers == 2

Handlers == 1..MaxHandlers

\* A handler outside get_model that has returned nothing yet.
NotCalled == [pc |-> "idle", model |-> 0, tokenizer |-> 0, calls |-> 0]

InitLoader ==
  /\ g_model = 0
  /\ g_tokenizer = 0
  /\ loads = 0
  /\ handlers = [h \in Handlers |-> NotCalled]
  /\ OutsideLoaderAtRest

\* Line 129 (summarize_text_ai, called by summarize_document line 104):
\* handler h calls get_model; each handler calls it at most twice here.
GetModelCall(h) ==
  /\ handlers[h].pc \in {"idle", "returned"}
  /\ handlers[h].calls < 2
  /\ handlers' = [handlers EXCEPT ![h].pc = "check", ![h].calls = @ + 1]
  /\ UNCHANGED <<g_model, g_tokenizer, loads>>
  /\ UNCHANGED outsideLoader

\* Line 15: _model is None.
CheckIsNone(h) == g_model = 0

\* Line 15: the test, with the branch it takes.
GetModelCheck(h) ==
  /\ handlers[h].pc = "check"
  /\ \/ /\ CheckIsNone(h)
        /\ handlers' = [handlers EXCEPT ![h].pc = "load_tokenizer"]
     \/ /\ g_model # 0
        /\ handlers' = [handlers EXCEPT ![h].pc = "read_model"]
  /\ UNCHANGED <<g_model, g_tokenizer, loads>>
  /\ UNCHANGED outsideLoader

\* Line 17: _tokenizer = BartTokenizer.from_pretrained(...).
GetModelLoadTokenizer(h) ==
  /\ handlers[h].pc = "load_tokenizer"
  /\ g_tokenizer' = h
  /\ loads' = loads + 1
  /\ handlers' = [handlers EXCEPT ![h].pc = "load_model"]
  /\ UNCHANGED g_model
  /\ UNCHANGED outsideLoader

\* Line 18: _model = BartForConditionalGeneration.from_pretrained(...).
GetModelLoadModel(h) ==
  /\ handlers[h].pc = "load_model"
  /\ g_model' = h
  /\ handlers' = [handlers EXCEPT ![h].pc = "read_model"]
  /\ UNCHANGED <<g_tokenizer, loads>>
  /\ UNCHANGED outsideLoader

\* Line 20: the return statement reads _model ...
GetModelReadModel(h) ==
  /\ handlers[h].pc = "read_model"
  /\ handlers' = [handlers EXCEPT ![h].model = g_model,
                                  ![h].pc = "read_tokenizer"]
  /\ UNCHANGED <<g_model, g_tokenizer, loads>>
  /\ UNCHANGED outsideLoader

\* ... then _tokenizer, and returns the pair.
GetModelReturn(h) ==
  /\ handlers[h].pc = "read_tokenizer"
  /\ handlers' = [handlers EXCEPT ![h].tokenizer = g_tokenizer,
                                  ![h].pc = "returned"]
  /\ UNCHANGED <<g_model, g_tokenizer, loads>>
  /\ UNCHANGED outsideLoader

NextLoader ==
  \E h \in Handlers :
    \/ GetModelCall(h)
    \/ GetModelCheck(h)
    \/ GetModelLoadTokenizer(h)
    \/ GetModelLoadModel(h)
    \/ GetModelReadModel(h)
    \/ GetModelReturn(h)

SpecLoader == InitLoader /\ [][NextLoader]_vars

(***************************************************************************)
(* C13  The model is loaded once                                           *)
(***************************************************************************)
\* C13: however the calls of get_model interleave, the from_pretrained load
\* is executed at most once, and every call that has returned returned the
\* same pair, the model and the tokenizer of that one load.
C13_LoadedAtMostOnce ==
  /\ loads <= 1
  /\ \A h, o \in Handlers :
       (handlers[h].pc = "returned" /\ handlers[o].pc = "returned") =>
         /\ handlers[h].model = handlers[o].model
         /\ handlers[h].tokenizer = handlers[o].tokenizer
         /\ handlers[h].model = handlers[h].tokenizer

(***************************************************************************)
(* extract_directions_verbatim                                             *)
(***************************************************************************)
\* str.lower() of one code point: a sequence, since the capital I with a dot
\* above (U+0130, the token "I_DOT") becomes "i" followed by the combining
\* dot above (U+0307, the token "DOT_ABOVE").
LowerOf(c) == IF c = "I_DOT" THEN <<"i", "DOT_ABOVE">> ELSE <<LowerChar(c)>>

\* str.lower() of a string that may hold "I_DOT".
LowerStr(s) ==
  LET wide == {i \in 1..Len(s) : s[i] = "I_DOT"}
      \* where the lower-cased form of s[i] starts
      At(i) == i + Cardinality({e \in wide : e < i})
      n == Len(s) + Cardinality(wide)
  IN  IF wide = {} THEN Lower(s)
      ELSE SubSeq([j \in 1..n |->
                     LET i == CHOOSE i \in 1..Len(s) :
                                At(i) <= j /\ j < At(i) + Len(LowerOf(s[i]))
                     IN  LowerOf(s[i])[j - At(i) + 1]], 1, n)

\* k in s
Contains(s, k) == \E i \in 1..(Len(s) - Len(k) + 1) : OccursAt(s, k, i)

\* any(k in s for k in ks)
ContainsAny(s, ks) == \E n \in 1..Len(ks) : Contains(s, ks[n])

DigitSet == {Digits[i] : i \in 1..Len(Digits)}

\* Line 92: re.compile(r'^\d+\.\s').match(s)
para_pattern(s) ==
  \E n \in 1..(Len(s) - 2) :
    /\ \A j \in 1..n : s[j] \in DigitSet
    /\ s[n + 1] = "."
    /\ IsSpace(s[n + 2])

\* Line 97
trigger_phrases ==
  << <<"w", "e", " ", "h", "e", "r", "e", "b", "y", " ", "d", "i", "r", "e",
      "c", "t">>,
     <<"w", "e", " ", "d", "i", "r", "e", "c", "t">>,
     <<"i", "n", " ", "v", "i", "e", "w", " ", "o", "f">>,
     <<"i", "t", " ", "i", "s", " ", "d", "i", "r", "e", "c", "t", "e", "d">> >>

\* Lines 101-103
numbered_keywords ==
  << <<"c", "e", "c">>,
     <<"s", "h", "a", "l", "l">>,
     <<"d", "i", "r", "e", "c", "t", "e", "d">>,
     <<"g", "r", "a", "n", "t", "e", "d">>,
     <<"l", "i", "s", "t", "e", "d">>,
     <<"s", "u", "r", "v", "e", "y">>,
     <<"l", "i", "s", "t", " ", "o", "n">>,
     <<"l", "i", "s", "t", "e", "d", " ", "o", "n">> >>

\* Lines 107-115
direction_keywords ==
  << <<"c", "e", "c">>,
     <<"s", "h", "a", "l", "l">>,
     <<"w", "e", "e", "k", "s">>,
     <<"l", "i", "s", "t", "e", "d", " ", "o", "n">>,
     <<"s", "u", "r", "v", "e", "y">>,
     <<"r", "e", "p", "o", "r", "t">>,
     <<"r", "e", "h", "a", "b", "i", "l", "i", "t", "a", "t", "i", "o", "n">>,
     <<"r", "e", "s", "t", "o", "r", "a", "t", "i", "o", "n">>,
     <<"t", "i", "m", "e", " ", "i", "s", " ", "g", "r", "a", "n", "t", "e",
      "d">>,
     <<"a", "p", "p", "e", "a", "l", " ", "a", "l", "l", "o", "w", "e", "d">>,
     <<"a", "p", "p", "e", "a", "l", " ", "d", "i", "s", "m", "i", "s", "s",
      "e", "d">>,
     <<"j", "u", "d", "g", "m", "e", "n", "t", " ", "r", "e", "v", "e", "r",
      "s", "e", "d">>,
     <<"s", "e", "t", " ", "a", "s", "i", "d", "e">>,
     <<"d", "e", "d", "u", "c", "t", "i", "o", "n", " ", "d", "i", "s", "a",
      "l", "l", "o", "w", "e", "d">>,
     <<"a", "s", "s", "e", "s", "s", "e", "e", " ", "n", "o", "t", " ", "e",
      "n", "t", "i", "t", "l", "e", "d">>,
     <<"h", "i", "g", "h", " ", "c", "o", "u", "r", "t", " ", "e", "r", "r",
      "e", "d">> >>

\* Lines 104, 116: len(l) > 20, l being line.lower().strip().
LongEnough(line) == Len(Strip(LowerStr(line))) > 20

\* Line 97: the line holds a trigger phrase.
IsTrigger(line) == ContainsAny(Strip(LowerStr(line)), trigger_phrases)

\* Lines 100-117: with capture on, the line is appended.
Appends(line) ==
  LET l == Strip(LowerStr(line))
  IN  \/ /\ para_pattern(Strip(line))
         /\ ContainsAny(l, numbered_keywords)
         /\ LongEnough(line)
      \/ /\ ContainsAny(l, direction_keywords)
         /\ LongEnough(line)

\* Line 120: list(dict.fromkeys(ds)), the first occurrences in order.
RemoveDuplicates(ds) ==
  LET firsts == {i \in 1..Len(ds) : \A j \in 1..(i - 1) : ds[j] # ds[i]}
      order == SortedSeq(firsts)
  IN  [n \in 1..Len(order) |-> ds[order[n]]]

\* Most lines of a generated text.
MaxLines == 3

\* The lines texts are built from: without keyword; with keywords; a padded
\* trigger line with a keyword; a trigger line without keyword; a numbered
\* line with a keyword of the numbered list only; a short numbered line; a
\* line of 20 code points with keywords, 21 when lower-cased; keyword lines
\* of 21 and of 20 code points.
LineKinds ==
  << <<"B", "a", "c", "k", "g", "r", "o", "u", "n", "d", " ", "o", "f", " ",
      "t", "h", "e", " ", "l", "e", "a", "s", "e", " ", "m", "a", "t", "t",
      "e", "r", ".">>,
     <<"T", "h", "e", " ", "C", "E", "C", " ", "s", "h", "a", "l", "l", " ",
      "f", "i", "l", "e", " ", "a", " ", "s", "u", "r", "v", "e", "y", " ",
      "r", "e", "p", "o", "r", "t", ".">>,
     <<" ", " ", "W", "e", " ", "d", "i", "r", "e", "c", "t", " ", "t", "h",
      "e", " ", "C", "E", "C", " ", "t", "o", " ", "f", "i", "l", "e", " ",
      "a", " ", "R", "e", "p", "o", "r", "t", ".", " ", " ">>,
     <<"I", "n", " ", "v", "i", "e", "w", " ", "o", "f", " ", "t", "h", "e",
      " ", "a", "b", "o", "v", "e", ":">>,
     <<"1", ".", " ", "A", "p", "p", "e", "a", "l", " ", "i", "s", " ", "g",
      "r", "a", "n", "t", "e", "d", " ", "t", "o", " ", "a", "l", "l", ".">>,
     <<"2", ".", " ", "L", "i", "s", "t", "e", "d", " ", "n", "e", "x", "t",
      ".">>,
     <<"I_DOT", ":", " ", "C", "E", "C", " ", "s", "h", "a", "l", "l", " ",
      "r", "e", "p", "o", "r", "t", ".">>,
     <<"S", "e", "t", " ", "a", "s", "i", "d", "e", " ", "i", "n", " ", "1",
      "2", " ", "w", "e", "e", "k", "s">>,
     <<"S", "e", "t", " ", "a", "s", "i", "d", "e", " ", "i", "n", " ", "9",
      " ", "w", "e", "e", "k", "s">> >>

\* The texts: up to MaxLines lines, joined by newlines.
DirTexts ==
  {Join(<<"\n">>, [i \in 1..Len(ks) |-> LineKinds[ks[i]]]) :
     ks \in UNION {[1..n -> 1..Len(LineKinds)] : n \in 0..MaxLines}}

InitDirections ==
  /\ dir_text \in DirTexts
  /\ lines = <<>>
  /\ line_no = 1
  /\ capture = FALSE
  /\ directions = <<>>
  /\ captured_at = {}
  /\ dir_result = <<>>
  /\ dir_pc = "split"
  /\ OutsideDirectionsAtRest

\* Lines 88-92.
ExtractSplit ==
  /\ dir_pc = "split"
  /\ lines' = SplitLines(dir_text)
  /\ line_no' = 1
  /\ capture' = FALSE
  /\ directions' = <<>>
  /\ dir_pc' = "loop"
  /\ UNCHANGED <<dir_text, captured_at, dir_result>>
  /\ UNCHANGED outsideDirections

\* Lines 93-117: one iteration of the loop.
ExtractLine ==
  /\ dir_pc = "loop"
  /\ line_no <= Len(lines)
  /\ capture' = (capture \/ IsTrigger(lines[line_no]))
  /\ IF capture' /\ Appends(lines[line_no])
       THEN /\ directions' = Append(directions, Strip(lines[line_no]))
            /\ captured_at' = captured_at \cup {line_no}
       ELSE UNCHANGED <<directions, captured_at>>
  /\ line_no' = line_no + 1
  /\ UNCHANGED <<dir_text, lines, dir_result, dir_pc>>
  /\ UNCHANGED outsideDirections

\* Line 120.
ExtractReturn ==
  /\ dir_pc = "loop"
  /\ line_no > Len(lines)
  /\ dir_result' = RemoveDuplicates(directions)
  /\ dir_pc' = "done"
  /\ UNCHANGED <<dir_text, lines, line_no, capture, directions, captured_at>>
  /\ UNCHANGED outsideDirections

NextDirections ==
  \/ ExtractSplit
  \/ ExtractLine
  \/ ExtractReturn

SpecDirections == InitDirections /\ [][NextDirections]_vars

\* extract_directions_verbatim(t) as a function of the text.
RECURSIVE ScanLines(_, _)
ScanLines(ls, n) ==
  IF n = 0 THEN [capture |-> FALSE, directions |-> <<>>]
  ELSE LET before == ScanLines(ls, n - 1)
           on == before.capture \/ IsTrigger(ls[n])
       IN  [capture |-> on,
            directions |-> IF on /\ Appends(ls[n])
                             THEN Append(before.directions, Strip(ls[n]))
                             ELSE before.directions]

extract_directions_verbatim(t) ==
  LET ls == SplitLines(t)
  IN  RemoveDuplicates(ScanLines(ls, Len(ls)).directions)

(***************************************************************************)
(* C17  Capture after the trigger                                          *)
(***************************************************************************)
\* The positions of the lines that hold a trigger phrase.
TriggerLines == {i \in 1..Len(lines) : IsTrigger(lines[i])}

\* The line holds a keyword of the list its branch tests.
HasDirectionKeyword(line) ==
  LET l == Strip(LowerStr(line))
  IN  \/ para_pattern(Strip(line)) /\ ContainsAny(l, numbered_keywords)
      \/ ContainsAny(l, direction_keywords)

\* C17: capturing is on exactly from the first trigger line on and never
\* goes off again; no line before the first trigger line is captured; every
\* captured line is a stripped input line longer than 20 code points that
\* holds a direction keyword; and the returned list holds each captured
\* line once, in the order of first capture.
C17_CapturedAfterTrigger ==
  /\ dir_pc = "loop" =>
       (capture <=> \E i \in TriggerLines : i < line_no)
  /\ \A i \in captured_at :
       /\ \E g \in TriggerLines : g <= i
       /\ Len(Strip(lines[i])) > 20
       /\ HasDirectionKeyword(lines[i])
  /\ Len(directions) = Cardinality(captured_at)
  /\ \A n \in 1..Len(directions) :
       directions[n] = Strip(lines[SortedSeq(captured_at)[n]])
  /\ dir_pc = "done" =>
       /\ \A n, m \in 1..Len(dir_result) : n # m => dir_result[n] # dir_result[m]
       /\ {dir_result[n] : n \in 1..Len(dir_result)}
            = {directions[n] : n \in 1..Len(directions)}
       /\ \A n, m \in 1..Len(dir_result) :
            n < m =>
              (CHOOSE a \in 1..Len(directions) :
                 directions[a] = dir_result[n]
                   /\ \A b \in 1..(a - 1) : directions[b] # dir_result[n])
              < (CHOOSE a \in 1..Len(directions) :
                   directions[a] = dir_result[m]
                     /\ \A b \in 1..(a - 1) : directions[b] # dir_result[m])

\* What the loop does keep: the same with the length measured on the
\* lower-cased line, and no line after the first trigger line that passes
\* the tests is left out.
CapturedByLowerLength ==
  /\ dir_pc = "loop" =>
       (capture <=> \E i \in TriggerLines : i < line_no)
  /\ \A i \in captured_at :
       /\ \E g \in TriggerLines : g <= i
       /\ Len(Strip(LowerStr(lines[i]))) > 20
       /\ HasDirectionKeyword(lines[i])
  /\ \A i \in 1..(line_no - 1) :
       (i \notin captured_at /\ \E g \in TriggerLines : g <= i) =>
         ~(Len(Strip(LowerStr(lines[i]))) > 20 /\ HasDirectionKeyword(lines[i]))
  /\ Len(directions) = Cardinality(captured_at)
  /\ dir_pc = "done" =>
       /\ \A n, m \in 1..Len(dir_result) : n # m => dir_result[n] # dir_result[m]
       /\ {dir_result[n] : n \in 1..Len(dir_result)}
            = {directions[n] : n \in 1..Len(directions)}

(***************************************************************************)
(* chunk_by_tokens                                                         *)
(***************************************************************************)
\* Lines 57, 142: the parameter max_tokens.
max_tokens == 900

\* Most sentences of a generated text.
MaxSentences == 3

\* The numbers of tokens a sentence may encode to (the tokenizer adds two
\* special tokens to every sentence).
TokenCounts == {2, 450, 600, 1000}

\* Line 67: len(tokenizer.encode(sentence, truncation=True,
\* max_length=max_tokens)), for a sentence of n tokens.
EncodedTruncated(n) == IF n > max_tokens THEN max_tokens ELSE n

\* Line 76: len(tokenizer.encode(sentence)), without truncation.
Encoded(n) == n

InitChunks ==
  /\ sentences \in UNION {[1..n -> TokenCounts] : n \in 1..MaxSentences}
  /\ sent_no = 1
  /\ chunks = <<>>
  /\ current_chunk = <<>>
  /\ current_length = 0
  /\ chunk_pc = "loop"
  /\ OutsideChunksAtRest

\* Lines 65-79: one iteration, the sentence added to the current chunk.
ChunkAppend ==
  /\ chunk_pc = "loop"
  /\ sent_no <= Len(sentences)
  /\ LET sent_length == EncodedTruncated(sentences[sent_no])
     IN  /\ ~(current_length + sent_length > max_tokens /\ Len(current_chunk) > 0)
         /\ current_chunk' = Append(current_chunk, sent_no)
         /\ current_length' = current_length + sent_length
  /\ sent_no' = sent_no + 1
  /\ UNCHANGED <<sentences, chunks, chunk_pc>>
  /\ UNCHANGED outsideChunks

\* Lines 65-79: one iteration, the current chunk saved first and its last
\* sentence kept as the head of the next chunk.
ChunkFlushAppend ==
  /\ chunk_pc = "loop"
  /\ sent_no <= Len(sentences)
  /\ LET sent_length == EncodedTruncated(sentences[sent_no])
         kept == current_chunk[Len(current_chunk)]
     IN  /\ current_length + sent_length > max_tokens
         /\ Len(current_chunk) > 0
         /\ chunks' = Append(chunks, current_chunk)
         /\ current_chunk' = <<kept, sent_no>>
         /\ current_length' = Encoded(sentences[kept]) + sent_length
  /\ sent_no' = sent_no + 1
  /\ UNCHANGED <<sentences, chunk_pc>>
  /\ UNCHANGED outsideChunks

\* Lines 82-85: the final chunk and the return.
ChunkReturn ==
  /\ chunk_pc = "loop"
  /\ sent_no > Len(sentences)
  /\ chunks' = IF Len(current_chunk) > 0 THEN Append(chunks, current_chunk)
               ELSE chunks
  /\ chunk_pc' = "done"
  /\ UNCHANGED <<sentences, sent_no, current_chunk, current_length>>
  /\ UNCHANGED outsideChunks

NextChunks ==
  \/ ChunkAppend
  \/ ChunkFlushAppend
  \/ ChunkReturn

SpecChunks == InitChunks /\ [][NextChunks]_vars

(***************************************************************************)
(* C16  Chunks within max_tokens                                           *)
(***************************************************************************)
RECURSIVE TokensOf(_)
\* The encoded lengths of the sentences of a chunk, summed.
TokensOf(chunk) ==
  IF Len(chunk) = 0 THEN 0
  ELSE EncodedTruncated(sentences[chunk[1]]) + TokensOf(Tail(chunk))

\* C16: every chunk returned holds at most max_tokens tokens, the sentence
\* carried over from the chunk before it included.
C16_ChunksWithinMaxTokens ==
  chunk_pc = "done" =>
    \A n \in 1..Len(chunks) : TokensOf(chunks[n]) <= max_tokens

(***************************************************************************)
(* summarize_text_ai and its fallback summarize_text_mock                  *)
(***************************************************************************)
\* Lines 126, 307
NoTextMessage ==
  <<"N", "o", " ", "t", "e", "x", "t", " ", "a", "v", "a", "i", "l", "a", "b",
  "l", "e", " ", "t", "o", " ", "s", "u", "m", "m", "a", "r", "i", "z", "e",
  ".">>

Ellipsis == <<".", ".", ".">>

\* Lines 302-320
summarize_text_mock(t, len) ==
  LET limit == CASE len = "short" -> 500
                 [] len = "medium" -> 2000
                 [] len = "long" -> 5000
                 [] OTHER -> 2000
  IN  IF Len(t) = 0 THEN NoTextMessage
      ELSE IF Len(t) <= limit THEN t
      ELSE Prefix(t, limit) \o Ellipsis

RECURSIVE LeftmostFrom(_, _, _)
\* Of the places starts where a string of length n occurs, the leftmost
\* non-overlapping ones from the place a on.
LeftmostFrom(starts, n, a) ==
  LET later == {i \in starts : i >= a}
  IN  IF later = {} THEN {}
      ELSE {SetMin(later)} \cup LeftmostFrom(starts, n, SetMin(later) + n)

\* s.replace(d, ""), d not empty.
Remove(s, d) ==
  LET starts == {i \in 1..(Len(s) - Len(d) + 1) : OccursAt(s, d, i)}
      taken == LeftmostFrom(starts, Len(d), 1)
  IN  IF taken = {} THEN s
      ELSE Join(<<>>, PiecesBetween(s, {<<i, i + Len(d) - 1>> : i \in taken}))

RECURSIVE RemoveEach(_, _)
\* Lines 137-139: the text with every direction removed, one after another.
RemoveEach(s, ds) ==
  IF Len(ds) = 0 THEN s ELSE RemoveEach(Remove(s, ds[1]), Tail(ds))

\* Line 182-195: the pieces of the returned template; the summary the model
\* generated is the token "GENERATED", the robot emoji the token "ROBOT" and
\* the bullet the token "BULLET".
CaseHead ==
  <<"\n", " ", " ", " ", " ", " ", " ", " ", " ", " ", " ", " ", " ", "C",
  "A", "S", "E", " ", "S", "U", "M", "M", "A", "R", "Y", "\n", "\n", " ", " ",
  " ", " ", " ", " ", " ", " ", " ", " ", " ", " ">>

CaseMid ==
  <<"\n", "\n", " ", " ", " ", " ", " ", " ", " ", " ", " ", " ", " ", " ",
  "-", "-", "-", "\n", "\n", " ", " ", " ", " ", " ", " ", " ", " ", " ", " ",
  " ", " ", "C", "O", "U", "R", "T", " ", "D", "I", "R", "E", "C", "T", "I",
  "O", "N", "S", " ", "(", "B", "i", "n", "d", "i", "n", "g", " ", "O", "r",
  "d", "e", "r", ")", "\n", "\n", " ", " ", " ", " ", " ", " ", " ", " ", " ",
  " ", " ", " ">>

CaseTail ==
  <<"\n", "\n", " ", " ", " ", " ", " ", " ", " ", " ", " ", " ", " ", " ",
  "-", "-", "-", "\n", " ", " ", " ", " ", " ", " ", " ", " ", " ", " ", " ",
  " ", "ROBOT", " ", "A", "I", "-", "L", "e", "g", "a", "l", "-", "D", "o",
  "c", "u", "m", "e", "n", "t", "e", "r", "\n", " ", " ", " ", " ", " ", " ",
  " ", " ", " ", " ", " ", " ">>

\* Lines 182-195
CaseSummary(ds) ==
  CaseHead \o <<"GENERATED">> \o CaseMid
    \o Join(<<"\n">>, [i \in 1..Len(ds) |-> <<"BULLET", " ">> \o ds[i]])
    \o CaseTail

\* A line of n letters without any keyword or trigger phrase.
Filler(n) == SubSeq([j \in 1..n |-> IF j % 6 = 0 /\ j < n THEN " " ELSE "x"], 1, n)

\* The texts given to summarize_text_ai: empty; whitespace only; a plain
\* line, a trigger line and a keyword line followed by a filler line, 558
\* code points in all; texts of 2001 and of 5001 code points.
AiTexts ==
  << <<>>,
     <<" ", "\n">>,
     Join(<<"\n">>, <<LineKinds[1], LineKinds[3], LineKinds[2], Filler(450)>>),
     Filler(2001),
     Filler(5001) >>

\* The numbers of chunks chunk_by_tokens may return (at least one).
ChunkCounts == {1, 2, 6}

InitAi ==
  /\ \E t \in 1..Len(AiTexts) : ai_text = AiTexts[t]
  /\ ai_length \in Tiers
  /\ ai_directions = <<>>
  /\ clean_text = <<>>
  /\ chunks_left = 0
  /\ raised_at = "none"
  /\ propagated = FALSE
  /\ ai_result = <<>>
  /\ ai_pc = "entry"
  /\ OutsideAiAtRest

\* Lines 125-126.
AiReturnNoText ==
  /\ ai_pc = "entry"
  /\ IsBlank(ai_text)
  /\ ai_result' = NoTextMessage
  /\ ai_pc' = "done"
  /\ UNCHANGED <<ai_text, ai_length, ai_directions, clean_text, chunks_left,
                 raised_at, propagated>>
  /\ UNCHANGED outsideAi

\* Line 128: the try block is entered.
AiEnterTry ==
  /\ ai_pc = "entry"
  /\ ~IsBlank(ai_text)
  /\ ai_pc' = "get_model"
  /\ UNCHANGED <<ai_text, ai_length, ai_directions, clean_text, chunks_left,
                 raised_at, propagated, ai_result>>
  /\ UNCHANGED outsideAi

\* Line 129: get_model() returns.
AiGetModel ==
  /\ ai_pc = "get_model"
  /\ ai_pc' = "extract"
  /\ UNCHANGED <<ai_text, ai_length, ai_directions, clean_text, chunks_left,
                 raised_at, propagated, ai_result>>
  /\ UNCHANGED outsideAi

\* Lines 132-139: the directions are extracted and removed from the text
\* the model is to summarize.
AiExtract ==
  /\ ai_pc = "extract"
  /\ \E ds \in {extract_directions_verbatim(ai_text)} :
       /\ ai_directions' = ds
       /\ clean_text' = RemoveEach(ai_text, ds)
  /\ ai_pc' = "chunk"
  /\ UNCHANGED <<ai_text, ai_length, chunks_left, raised_at, propagated,
                 ai_result>>
  /\ UNCHANGED outsideAi

\* Lines 142-145: chunk_by_tokens returns n chunks; the loop takes five at
\* most.
AiChunk ==
  /\ ai_pc = "chunk"
  /\ \E n \in ChunkCounts : chunks_left' = IF n > 5 THEN 5 ELSE n
  /\ ai_pc' = "generate"
  /\ UNCHANGED <<ai_text, ai_length, ai_directions, clean_text, raised_at,
                 propagated, ai_result>>
  /\ UNCHANGED outsideAi

\* Lines 145-157: one chunk is summarized.
AiGenerate ==
  /\ ai_pc = "generate"
  /\ chunks_left > 0
  /\ chunks_left' = chunks_left - 1
  /\ UNCHANGED <<ai_text, ai_length, ai_directions, clean_text, raised_at,
                 propagated, ai_result, ai_pc>>
  /\ UNCHANGED outsideAi

\* Lines 159-162: the summaries are joined; more than 400 words go through
\* the refinement pass (as many as the model generated: either branch).
AiCombine ==
  /\ ai_pc = "generate"
  /\ chunks_left = 0
  /\ ai_pc' \in {"refine", "format"}
  /\ UNCHANGED <<ai_text, ai_length, ai_directions, clean_text, chunks_left,
                 raised_at, propagated, ai_result>>
  /\ UNCHANGED outsideAi

\* Lines 163-177: the refinement pass.
AiRefine ==
  /\ ai_pc = "refine"
  /\ ai_pc' = "format"
  /\ UNCHANGED <<ai_text, ai_length, ai_directions, clean_text, chunks_left,
                 raised_at, propagated, ai_result>>
  /\ UNCHANGED outsideAi

\* Lines 182-195.
AiReturnCaseSummary ==
  /\ ai_pc = "format"
  /\ ai_result' = CaseSummary(ai_directions)
  /\ ai_pc' = "done"
  /\ UNCHANGED <<ai_text, ai_length, ai_directions, clean_text, chunks_left,
                 raised_at, propagated>>
  /\ UNCHANGED outsideAi

\* The statements between try (line 128) and except (line 197).
TrySteps == {"get_model", "extract", "chunk", "generate", "refine", "format"}

\* The handler of line 197 covers only what follows the loading of the
\* model.
HandledAfterLoading(step) == step \in TrySteps \ {"get_model"}

\* Lines 128, 197: an exception raised at the step is caught.
Handled(step) == step \in TrySteps

\* A step of the call raises: loading the model, extracting, chunking,
\* generating, refining or formatting.
AiRaise ==
  /\ ai_pc \in {"get_model", "extract", "chunk", "generate", "refine", "format"}
  /\ raised_at' = ai_pc
  /\ IF Handled(ai_pc)
       THEN ai_pc' = "except" /\ UNCHANGED propagated
       ELSE ai_pc' = "done" /\ propagated' = TRUE
  /\ UNCHANGED <<ai_text, ai_length, ai_directions, clean_text, chunks_left,
                 ai_result>>
  /\ UNCHANGED outsideAi

\* The text handed to the fallback were it the cleaned one.
FallbackTextCleaned(t, cleaned) == cleaned

\* Line 199: the text handed to summarize_text_mock.
FallbackText(t, cleaned) == t

\* Lines 197-199.
AiReturnFallback ==
  /\ ai_pc = "except"
  /\ ai_result' = summarize_text_mock(FallbackText(ai_text, clean_text), ai_length)
  /\ ai_pc' = "done"
  /\ UNCHANGED <<ai_text, ai_length, ai_directions, clean_text, chunks_left,
                 raised_at, propagated>>
  /\ UNCHANGED outsideAi

NextAi ==
  \/ AiReturnNoText
  \/ AiEnterTry
  \/ AiGetModel
  \/ AiExtract
  \/ AiChunk
  \/ AiGenerate
  \/ AiCombine
  \/ AiRefine
  \/ AiReturnCaseSummary
  \/ AiRaise
  \/ AiReturnFallback

SpecAi == InitAi /\ [][NextAi]_vars

(***************************************************************************)
(* C14  Exceptions fall back to the mock                                   *)
(***************************************************************************)
\* The limit of the mock for the tier of the call.
MockLimit ==
  IF ai_length = "short" THEN 500
  ELSE IF ai_length = "long" THEN 5000
  ELSE 2000

\* C14: no exception leaves the call, and when a step raised (the text
\* then is not empty) the value returned is the text as given if it is at
\* most as long as the mock limit of the tier, and otherwise its first
\* limit code points followed by "...".
C14_RaiseFallsBackToMock ==
  /\ ~propagated
  /\ raised_at # "none" => ai_pc \in {"except", "done"}
  /\ (ai_pc = "done" /\ raised_at # "none") =>
       /\ Len(ai_text) > 0
       /\ ai_result = IF Len(ai_text) <= MockLimit THEN ai_text
                      ELSE SubSeq(ai_text, 1, MockLimit) \o <<".", ".", ".">>

\* Generation raised after directions had been removed from the text to
\* summarize, and the fallback returned the first 500 code points of the
\* original text and the ellipsis.
C14_Witness ==
  /\ ai_pc = "done"
  /\ raised_at = "generate"
  /\ ai_length = "short"
  /\ Len(ai_directions) = 2
  /\ clean_text # ai_text
  /\ Len(ai_text) > 500
  /\ Len(ai_result) = 503

(***************************************************************************)
(* The /documents endpoints                                                *)
(***************************************************************************)
\* Most rows of the Document table.
MaxDocs == 2

\* The ids a request may name: those of the rows and one more.
DocIds == 1..(MaxDocs + 1)

\* The value None of an optional column.
None == <<"NONE">>

Titles == {<<"L", "e", "a", "s", "e">>}

\* The contents a document is created with: empty; whitespace only; a
\* trigger line and a keyword line.
Contents ==
  {<<>>, <<" ">>, Join(<<"\n">>, <<LineKinds[3], LineKinds[2]>>)}

\* The summaries PATCH /documents/{doc_id}/summary is given.
GivenSummaries == {<<"o", "l", "d">>}

\* The response to a request: its status, and the title and summary of its
\* body where it has them.
Response(op, doc_id, code, title, summ) ==
  [op |-> op, doc_id |-> doc_id, status |-> code, title |-> title,
   summary |-> summ]

InitRecords ==
  /\ documents = <<>>
  /\ response = Response("none", 0, 0, None, None)
  /\ OutsideRecordsAtRest

\* documents.py lines 26-37: POST /documents/; the table gives the row the
\* id after the highest one in use.
create_document(title, content) ==
  LET id == IF DOMAIN documents = {} THEN 1 ELSE SetMax(DOMAIN documents) + 1
  IN  /\ id <= MaxDocs
      /\ documents' = [i \in DOMAIN documents \cup {id} |->
                         IF i = id
                           THEN [title |-> title, content |-> content,
                                 summary |-> None]
                           ELSE documents[i]]
      /\ response' = Response("create", id, 201, title, None)
      /\ UNCHANGED outsideRecords

\* documents.py lines 55-62: DELETE /documents/{document_id}.
delete_document(document_id) ==
  /\ IF document_id \notin DOMAIN documents
       THEN /\ response' = Response("delete", document_id, 404, None, None)
            /\ UNCHANGED documents
       ELSE /\ documents' = [i \in DOMAIN documents \ {document_id} |-> documents[i]]
            /\ response' = Response("delete", document_id, 204, None, None)
  /\ UNCHANGED outsideRecords

\* documents.py lines 65-79: PATCH /documents/{doc_id}/summary.
update_summary(doc_id, given) ==
  /\ IF doc_id \notin DOMAIN documents
       THEN /\ response' = Response("update_summary", doc_id, 404, None, None)
            /\ UNCHANGED documents
       ELSE /\ documents' = [documents EXCEPT ![doc_id].summary = given]
            /\ response' = Response("update_summary", doc_id, 200,
                                    documents[doc_id].title, given)
  /\ UNCHANGED outsideRecords

\* The test of the content taking whitespace for no content.
NoContentOrBlank(content) == content = None \/ IsBlank(content)

\* documents.py lines 94-96: not (doc.content or "").
NoContent(content) == content = None \/ Len(content) = 0

\* documents.py lines 90-115 with the summary the summarizer returned.
SummarizeWith(doc_id, summ) ==
  /\ documents' = [documents EXCEPT ![doc_id].summary = summ]
  /\ response' = Response("summarize", doc_id, 200, documents[doc_id].title, summ)

\* documents.py lines 91-100: the request is refused.
SummarizeRefused(doc_id) ==
  \/ /\ doc_id \notin DOMAIN documents
     /\ response' = Response("summarize", doc_id, 404, None, None)
     /\ UNCHANGED documents
  \/ /\ doc_id \in DOMAIN documents
     /\ NoContent(documents[doc_id].content)
     /\ response' = Response("summarize", doc_id, 400, None, None)
     /\ UNCHANGED documents

\* What summarize_text_ai(t, "medium") may return for a text that is not
\* empty: the message for blank text, else the template around what the
\* model generated, or the mock's result when a step raised.
AiResults(t) ==
  IF IsBlank(t) THEN {NoTextMessage}
  ELSE {CaseSummary(extract_directions_verbatim(t)),
        summarize_text_mock(t, "medium")}

\* documents.py lines 82-115: POST /documents/{doc_id}/summarize.
summarize_document(doc_id) ==
  /\ \/ SummarizeRefused(doc_id)
     \/ /\ doc_id \in DOMAIN documents
        /\ ~NoContent(documents[doc_id].content)
        /\ \E summ \in AiResults(documents[doc_id].content) :
             SummarizeWith(doc_id, summ)
  /\ UNCHANGED outsideRecords

\* documents2.py lines 82-119: the same endpoint with the mock summarizer.
summarize_document2(doc_id) ==
  /\ \/ SummarizeRefused(doc_id)
     \/ /\ doc_id \in DOMAIN documents
        /\ ~NoContent(documents[doc_id].content)
        /\ SummarizeWith(doc_id,
                         summarize_text_mock(documents[doc_id].content, "medium"))
  /\ UNCHANGED outsideRecords

NextRecords ==
  \/ \E title \in Titles, content \in Contents : create_document(title, content)
  \/ \E id \in DocIds : delete_document(id)
  \/ \E id \in DocIds, given \in GivenSummaries : update_summary(id, given)
  \/ \E id \in DocIds : summarize_document(id)
  \/ \E id \in DocIds : summarize_document2(id)

SpecRecords == InitRecords /\ [][NextRecords]_vars

(***************************************************************************)
(* C15  Summarize stores the summary                                       *)
(***************************************************************************)
\* C15: a summarize request for an id without a row is answered 404 and one
\* for a row with empty content 400, and neither changes the table; any
\* other is answered 200, and then the row's stored summary is the summary
\* returned, its title and content are as before and no other row changed.
C15_SummarizeStoresSummary ==
  [][response'.op = "summarize" =>
       LET id == response'.doc_id
       IN  IF id \notin DOMAIN documents
             THEN response'.status = 404 /\ documents' = documents
           ELSE IF documents[id].content = <<>>
             THEN response'.status = 400 /\ documents' = documents
           ELSE /\ response'.status = 200
                /\ response'.summary # None
                /\ DOMAIN documents' = DOMAIN documents
                /\ documents'[id].summary = response'.summary
                /\ documents'[id].title = documents[id].title
                /\ documents'[id].content = documents[id].content
                /\ response'.title = documents[id].title
                /\ \A o \in DOMAIN documents \ {id} : documents'[o] = documents[o]
    ]_vars

\* A summarize request was refused with 400 for a row that keeps its earlier
\* summary, beside a row whose stored summary a summarize request replaced.
C15_Witness ==
  /\ response.op = "summarize"
  /\ response.status = 400
  /\ response.doc_id \in DOMAIN documents
  /\ documents[response.doc_id].summary \in GivenSummaries
  /\ \E o \in DOMAIN documents :
       /\ documents[o].content # <<>>
       /\ documents[o].summary \notin GivenSummaries \cup {None}

(***************************************************************************)
(* The upload store and the /nlp endpoints                                 *)
(***************************************************************************)
\* Most entries of the upload store.
MaxUploads == 1

\* The ids of uploads.
UploadIds == 1..MaxUploads

\* A request without document_id (None or the empty string).
NoId == 0

\* "No direct answer found. Try rephrasing the question."
NoAnswer ==
  <<"N", "o", " ", "d", "i", "r", "e", "c", "t", " ", "a", "n", "s", "w", "e",
  "r", " ", "f", "o", "u", "n", "d", ".", " ", "T", "r", "y", " ", "r", "e",
  "p", "h", "r", "a", "s", "i", "n", "g", " ", "t", "h", "e", " ", "q", "u",
  "e", "s", "t", "i", "o", "n", ".">>

UploadHead ==
  <<"C", "o", "s", "t", "s", " ", "f", "o", "l", "l", "o", "w", ".", " ">>

UploadTail ==
  <<".", " ", "T", "h", "e", " ", "C", "E", "C", " ", "s", "h", "a", "l", "l",
  " ", "r", "e", "p", "o", "r", "t", ".">>

\* The texts extracted from an upload: none, and 538 code points whose
\* last sentence, the one about a report, starts after the 500th.
ExtractedTexts == {<<>>, UploadHead \o Filler(501) \o UploadTail}

\* The text a /nlp/summarize request carries: none, or "Costs are awarded."
PayloadTexts ==
  {<<>>,
   <<"C", "o", "s", "t", "s", " ", "a", "r", "e", " ", "a", "w", "a", "r", "d",
     "e", "d", ".">>}

\* The length a /nlp/summarize request carries: none, or a tier.
PayloadLengths == {"", "medium"}

\* The queries of /nlp/ask, as their tokens: "Report", "zzz" and "costs".
Queries ==
  {<< <<"R", "e", "p", "o", "r", "t">> >>, << <<"z", "z", "z">> >>,
   << <<"c", "o", "s", "t", "s">> >>}

\* The outcome of an operation: the status of the response, the summary it
\* returned, and for /nlp/ask the text searched and the answer.
Reply(op, doc_id, code, summ, searched, answer) ==
  [op |-> op, doc_id |-> doc_id, status |-> code, summary |-> summ,
   searched |-> searched, answer |-> answer]

InitUploads ==
  /\ upload_store = <<>>
  /\ reply = Reply("none", NoId, 0, None, None, None)
  /\ summarized = {}
  /\ OutsideUploadsAtRest

\* The store with the entry of doc_id set to item.
StoreWith(doc_id, item) ==
  [i \in DOMAIN upload_store \cup {doc_id} |->
     IF i = doc_id THEN item ELSE upload_store[i]]

\* uploads.py lines 73-83: the text of an upload is extracted into its
\* entry, which is created when the store has none.
background_extract_text(doc_id, txt) ==
  /\ LET item == IF doc_id \in DOMAIN upload_store THEN upload_store[doc_id]
                 ELSE [summary |-> None]
     IN  upload_store' = StoreWith(doc_id, [text |-> txt, status |-> "parsed",
                                            summary |-> item.summary])
  /\ reply' = Reply("background_extract_text", doc_id, 0, None, None, None)
  /\ UNCHANGED summarized
  /\ UNCHANGED outsideUploads

\* uploads.py lines 154-167: DELETE /uploads/{doc_id}; no entry has a
\* "path", so that line 160 raises and the finally clause removes the entry.
delete_upload(doc_id) ==
  /\ IF doc_id \notin DOMAIN upload_store
       THEN /\ reply' = Reply("delete_upload", doc_id, 404, None, None, None)
            /\ UNCHANGED upload_store
       ELSE /\ upload_store' = [i \in DOMAIN upload_store \ {doc_id} |-> upload_store[i]]
            /\ reply' = Reply("delete_upload", doc_id, 500, None, None, None)
  /\ UNCHANGED summarized
  /\ UNCHANGED outsideUploads

\* nlp.py lines 21-28: the text to summarize, None when the request fails
\* with 404.
TextToSummarize(document_id, txt) ==
  IF Len(txt) > 0 THEN txt
  ELSE IF document_id # NoId
    THEN IF document_id \notin DOMAIN upload_store THEN None
         ELSE upload_store[document_id].text
  ELSE <<>>

\* nlp.py lines 18-42: POST /nlp/summarize.
summarize(document_id, txt, len) ==
  /\ \E t \in {TextToSummarize(document_id, txt)} :
       IF t = None
         THEN /\ reply' = Reply("summarize", document_id, 404, None, None, None)
              /\ UNCHANGED <<upload_store, summarized>>
         ELSE \E summ \in {summarize_text_mock(t, IF len = "" THEN "short" ELSE len)} :
                /\ reply' = Reply("summarize", document_id, 200, summ, None, None)
                /\ IF document_id # NoId /\ document_id \in DOMAIN upload_store
                     THEN /\ upload_store' =
                               [upload_store EXCEPT ![document_id].summary = summ,
                                                    ![document_id].status = "summarized"]
                          /\ summarized' = summarized \cup {document_id}
                     ELSE UNCHANGED <<upload_store, summarized>>
  /\ UNCHANGED outsideUploads

\* The text of the entry as the text to search.
SearchedTextOriginal(item) == item.text

\* nlp.py line 56: item.get("summary") or item.get("text") or "".
SearchedText(item) ==
  IF item.summary # None /\ Len(item.summary) > 0 THEN item.summary
  ELSE item.text

\* text.split(".")
SplitDots(txt) == PiecesBetween(txt, {<<i, i>> : i \in {j \in 1..Len(txt) : txt[j] = "."}})

\* nlp.py lines 63-70: the first sentence of text that holds a token of the
\* query, stripped.
Answer(txt, q_tokens) ==
  LET sents == SplitDots(txt)
      hits == {i \in 1..Len(sents) :
                 \E n \in 1..Len(q_tokens) :
                   Contains(LowerStr(sents[i]), LowerStr(q_tokens[n]))}
  IN  IF hits = {} THEN NoAnswer ELSE Strip(sents[SetMin(hits)])

\* nlp.py lines 50-70: POST /nlp/ask.
ask(document_id, q_tokens) ==
  /\ IF document_id = NoId
       THEN reply' = Reply("ask", document_id, 400, None, None, None)
     ELSE IF document_id \notin DOMAIN upload_store
       THEN reply' = Reply("ask", document_id, 404, None, None, None)
     ELSE \E txt \in {SearchedText(upload_store[document_id])} :
            IF Len(txt) = 0
              THEN reply' = Reply("ask", document_id, 400, None, None, None)
              ELSE reply' = Reply("ask", document_id, 200, None, txt,
                                  Answer(txt, q_tokens))
  /\ UNCHANGED <<upload_store, summarized>>
  /\ UNCHANGED outsideUploads

NextUploads ==
  \/ \E id \in UploadIds, txt \in ExtractedTexts : background_extract_text(id, txt)
  \/ \E id \in UploadIds : delete_upload(id)
  \/ \E id \in UploadIds \cup {NoId}, txt \in PayloadTexts, len \in PayloadLengths :
       summarize(id, txt, len)
  \/ \E id \in UploadIds \cup {NoId}, q \in Queries : ask(id, q)

SpecUploads == InitUploads /\ [][NextUploads]_vars

(***************************************************************************)
(* C18  The stored summary and the later questions                         *)
(***************************************************************************)
\* What a summarize or ask step does to the store.
StoreStep ==
  /\ reply'.op = "summarize" =>
       LET id == reply'.doc_id
       IN  IF reply'.status # 200
             THEN reply'.status = 404 /\ upload_store' = upload_store
           ELSE IF id \notin DOMAIN upload_store
             THEN upload_store' = upload_store
           ELSE /\ upload_store' =
                     [upload_store EXCEPT ![id] =
                        [text |-> upload_store[id].text, status |-> "summarized",
                         summary |-> reply'.summary]]
                /\ Len(reply'.summary) > 0
  /\ reply'.op = "ask" =>
       /\ upload_store' = upload_store
       /\ reply'.status \in {200, 400, 404}

\* C18 as stated: a summarize or ask request that fails changes nothing, a
\* summarize request for an id of the store leaves the returned summary and
\* the status "summarized" in its entry, and every /nlp/ask answered for an
\* id after /nlp/summarize has completed for it has searched the summary
\* stored in its entry.
C18_AskSearchesSummaryEverAfter ==
  [][/\ StoreStep
     /\ (reply'.op = "ask" /\ reply'.status = 200 /\ reply'.doc_id \in summarized') =>
          /\ upload_store'[reply'.doc_id].summary # None
          /\ reply'.searched = upload_store'[reply'.doc_id].summary
    ]_vars

\* C18 as it holds: the same, for as long as the entry is not deleted: a
\* summary in an entry stays in it until DELETE /uploads/{id} removes the
\* entry, and /nlp/ask searches the summary of an entry that has one and
\* the text of an entry that has none.
C18_AskSearchesSummaryUntilDeleted ==
  [][/\ StoreStep
     /\ \A id \in DOMAIN upload_store :
          (upload_store[id].summary # None /\ reply'.op # "delete_upload") =>
            /\ id \in DOMAIN upload_store'
            /\ upload_store'[id].summary # None
     /\ (reply'.op = "ask" /\ reply'.status = 200) =>
          reply'.searched =
            IF upload_store[reply'.doc_id].summary # None
              THEN upload_store[reply'.doc_id].summary
              ELSE upload_store[reply'.doc_id].text
    ]_vars

\* A question about the report was answered from the stored summary, which
\* does not hold the sentence of the text that answers it.
C18_Witness ==
  /\ \E id \in DOMAIN upload_store :
       /\ id \in summarized
       /\ reply.op = "ask" /\ reply.status = 200 /\ reply.doc_id = id
       /\ upload_store[id].status = "summarized"
       /\ upload_store[id].summary # upload_store[id].text
       /\ reply.searched = upload_store[id].summary
       /\ reply.answer = NoAnswer
       /\ \E q \in Queries : Answer(upload_store[id].text, q) # NoAnswer

====
